---- MODULE Spec2Model ----
(***************************************************************************)
(* ProjectBuilder (core/project-builder): the step list, the three ways of *)
(* running it (build, toSingleAction, toActions), executeStepWithHooks,    *)
(* executeStep, copyTemplateWithVariables, the prepare commands and the    *)
(* inheritance resolution behind loadTemplate.                             *)
(*                                                                         *)
(* A file name is a record [k, n, parts]: k = "plain" for an ordinary name *)
(* n, k = "inherit" for the name "<inherit:n>" and k = "tmpl" for a name   *)
(* with placeholders, held in parts.  A path is a sequence of names.  A    *)
(* template directory is the sequence of its entries in readdirSync order; *)
(* the target directory is a function from the paths that exist (relative  *)
(* to config.targetDir) to their nodes.                                    *)
(***************************************************************************)
EXTENDS Integers, Sequences, FiniteSets, TLC

\* The longest step list the builder is driven to.
MaxSteps == 2

\* The most actions an ActionRunner is given.
MaxActions == 3

\* The first bytes of a file isBinary reads: Buffer.alloc(512)
BinaryWindow == 512

----------------------------------------------------------------------------
\* Names, file contents, template library

Plain(n) == [k |-> "plain", n |-> n, parts |-> <<>>]

InheritName(t) == [k |-> "inherit", n |-> t, parts |-> <<>>]

PrepareName == Plain("<prepare_command>")

PackageJson == Plain("package.json")

GitDir == Plain(".git")

\* Faulty variant: no name is taken for an inheritance marker.
IsInheritanceFileNever(name) == FALSE

\* file.startsWith('<inherit:') && file.endsWith('>')
IsInheritanceFile(name) == name.k = "inherit"

\* A text that is open to substitution is a sequence of pieces, cut so that
\* every placeholder is a piece of its own: Tok(id) is the text "{{id}}",
\* Lit(s) is the text s.  In the string given as a replacement the patterns
\* "$$" and "$&" are literal pieces of their own.
Lit(s) == [k |-> "lit", s |-> s]

Tok(id) == [k |-> "tok", s |-> id]

RECURSIVE Flat(_)
\* The characters of a text
Flat(pieces) ==
  IF pieces = <<>> THEN ""
  ELSE (IF Head(pieces).k = "tok" THEN "{{" \o Head(pieces).s \o "}}" ELSE Head(pieces).s)
       \o Flat(Tail(pieces))

\* A file name that holds placeholders
TmplName(pieces) == [k |-> "tmpl", n |-> "", parts |-> pieces]

\* The content of a file: its kind and text; for a package.json that parses,
\* v is its "name", version its "version" ("" when it has none), has tells
\* whether it has the key "dependencies" and deps are the entries of that
\* object in the order of its keys, hasDev and dev the same for the key
\* "devDependencies".  A text with placeholders is held in
\* parts, any other text in v.  zero is the position of the first zero byte
\* of the file, 0 when it has none.
Data(t, v) ==
  [t |-> t, v |-> v, has |-> FALSE, deps |-> <<>>, version |-> "", parts |-> <<>>, zero |-> 0,
   hasDev |-> FALSE, dev |-> <<>>]

NoData == Data("none", "")

Text(v) == Data("text", v)

\* A parseable package.json whose "name" is v, and one JSON.parse rejects.
Json(v) == Data("json", v)

Dep(name, ver) == [name |-> name, ver |-> ver]

JsonDeps(v, deps) == [Json(v) EXCEPT !.has = TRUE, !.deps = deps]

BadJson == Data("bad", "")

\* A text file with placeholders, and a file with a zero byte at position z
Tmpl(pieces) == [Data("text", "") EXCEPT !.parts = pieces]

WithZero(data, z) == [data EXCEPT !.zero = z]

\* The text of a file as pieces, and as characters
Parts(data) ==
  IF data.parts # <<>> THEN data.parts
  ELSE IF data.v = "" THEN <<>> ELSE <<Lit(data.v)>>

Content(data) == Flat(Parts(data))

File(name, data) == [name |-> name, dir |-> FALSE, data |-> data, sub |-> <<>>]

Dir(name, sub) == [name |-> name, dir |-> TRUE, data |-> NoData, sub |-> sub]

\* The template directories that exist; a step's from names one of them, or
\* a directory that does not exist ("ghost"), or is "" for a hook-only step.
Lib ==
  [ base |-> << File(Plain("a.txt"), Text("base:a")),
                File(PackageJson, JsonDeps("base", << Dep("a", "1") >>)),
                File(Plain("gitignore"), Text("base:ignore")) >>,
    cmd  |-> << File(Plain("c.txt"), Text("cmd:c")),
                File(PrepareName, Text("npm install")),
                Dir(Plain("dist"), << File(Plain("out.js"), Text("cmd:out")) >>) >>,
    pkg  |-> << File(PackageJson, JsonDeps("", << Dep("c", "3"), Dep("b", "2") >>)),
                File(Plain("p.txt"), Text("pkg:p")) >>,
    bad  |-> << File(Plain("b.txt"), Text("bad:b")),
                File(PackageJson, BadJson),
                File(Plain("z.txt"), Text("bad:z")) >>,
    duo  |-> << File(InheritName("base"), Text("")),
                File(Plain("a.txt"), Text("duo:a")),
                File(Plain("gitignore"), Text("duo:ignore")) >>,
    trio |-> << File(InheritName("duo"), Text("")),
                File(Plain("a.txt"), Text("trio:a")),
                File(Plain("t.txt"), Text("trio:t")) >>,
    ext  |-> << File(InheritName("base"), Text("")),
                File(Plain("x.txt"), Text("ext:x")) >>,
    dia  |-> << File(InheritName("duo"), Text("")),
                File(InheritName("ext"), Text("")),
                File(Plain("d.txt"), Text("dia:d")) >>,
    ca   |-> << File(InheritName("cb"), Text("")),
                File(Plain("fa.txt"), Text("ca:fa")) >>,
    cb   |-> << File(InheritName("ca"), Text("")),
                File(Plain("fb.txt"), Text("cb:fb")) >>,
    self |-> << File(InheritName("self"), Text("")),
                File(Plain("s.txt"), Text("self:s")) >>,
    deep |-> << Dir(Plain("lib"), << File(InheritName("kid"), Text("")) >>),
                File(Plain("d.txt"), Text("deep:d")) >>,
    kid  |-> << File(InheritName("base"), Text("")),
                File(Plain("a.txt"), Text("kid:a")),
                Dir(Plain("src"), << File(InheritName("cmd"), Text("")),
                                     File(InheritName("ghost"), Text("")),
                                     File(Plain("k.txt"), Text("kid:k")) >>) >>,
    app  |-> << File(InheritName("lib"), Text("")),
                File(Plain("app.txt"), Tmpl(<< Lit("app:"), Tok("name") >>)),
                Dir(Plain("src"), << File(InheritName("part"), Text("")),
                                     File(Plain("main.txt"), Text("app:main")),
                                     File(PrepareName,
                                          Tmpl(<< Lit("echo "), Tok("name"), Lit("\n") >>)) >>) >>,
    lib  |-> << File(Plain("lib.txt"), Tmpl(<< Lit("lib:"), Tok("name") >>)) >>,
    part |-> << File(Plain("part.txt"), Tmpl(<< Lit("part:"), Tok("name") >>)) >>,
    comp |-> << File(TmplName(<< Tok("name"), Lit(".js") >>),
                     Tmpl(<< Lit("class "), Tok("name"), Lit(" "), Tok("other"),
                             Lit(" "), Tok(" name ") >>)),
                File(Plain("logo.png"), WithZero(Tmpl(<< Lit("PNG"), Tok("name") >>), 4)),
                File(TmplName(<< Tok("name"), Lit(".bin") >>),
                     WithZero(Tmpl(<< Tok("name"), Lit("!") >>), BinaryWindow)),
                File(Plain("late.dat"),
                     WithZero(Tmpl(<< Tok("name"), Lit("?") >>), BinaryWindow + 1)),
                File(Plain("plain.txt"), Text("comp:plain")) >>,
    mono |-> << File(PackageJson,
                     [JsonDeps("{{name}}", << Dep("core", "workspace:*"), Dep("a", "1") >>)
                        EXCEPT !.version = "1.0.0"]),
                Dir(Plain("packages"),
                    << File(PackageJson,
                            [JsonDeps("{{name}}", << Dep("core", "workspace:*"), Dep("a", "1") >>)
                               EXCEPT !.version = "1.0.0"]) >>),
                File(Plain("README.md"), Tmpl(<< Lit("# "), Tok("name") >>)) >>,
    devs |-> << File(PackageJson,
                     [JsonDeps("devs", << Dep("a", "1"), Dep("b", ""), Dep("c", "3") >>)
                        EXCEPT !.hasDev = TRUE, !.dev = << Dep("zz", "0"), Dep("a", "2") >>]) >>,
    tree |-> << File(Plain("keep.txt"), Text("tree:keep")),
                File(Plain("skip.txt"), Text("tree:skip")),
                Dir(Plain("dist"), << File(Plain("out.js"), Text("tree:out")) >>),
                Dir(Plain("src"),
                    << File(Plain("keep.txt"), Text("tree:src/keep")),
                       File(Plain("skip.txt"), Text("tree:src/skip")),
                       File(InheritName("base"), Text("")),
                       Dir(Plain("node_modules"), << File(Plain("m.js"), Text("tree:m")) >>),
                       Dir(Plain("lib"), << File(Plain("deep.txt"), Text("tree:deep")),
                                            File(Plain("skip.txt"), Text("tree:lib/skip")) >>) >>) >> ]

TemplateNames == DOMAIN Lib

\* fs.existsSync on a template directory
TemplateExists(t) == t \in TemplateNames

----------------------------------------------------------------------------
\* The target directory

NodeDir == [dir |-> TRUE, data |-> NoData]

NodeFile(data) == [dir |-> FALSE, data |-> data]

IsPrefix(p, q) == Len(p) <= Len(q) /\ SubSeq(q, 1, Len(p)) = p

Exists(fs, p) == p \in DOMAIN fs

\* fs.readdirSync(p): the names directly under p
ReadDir(fs, p) == { q[Len(q)] : q \in { r \in DOMAIN fs : Len(r) = Len(p) + 1 /\ IsPrefix(p, r) } }

\* Faulty variant: a directory that holds only .git is not taken for empty.
isEmptyDirNoGit(fs, p) ==
  IF ~Exists(fs, p) THEN TRUE ELSE ReadDir(fs, p) = {}

\* isEmptyDir(path)
isEmptyDir(fs, p) ==
  IF ~Exists(fs, p) THEN TRUE
  ELSE ReadDir(fs, p) = {} \/ ReadDir(fs, p) = {GitDir}

\* fs.mkdirSync(p, {recursive: true})
MkdirP(fs, p) ==
  LET new == { SubSeq(p, 1, n) : n \in 0..Len(p) } \ DOMAIN fs
  IN  [q \in DOMAIN fs \cup new |-> IF q \in DOMAIN fs THEN fs[q] ELSE NodeDir]

\* fs.copyFileSync / fs.writeFileSync
WriteFile(fs, p, data) ==
  [q \in DOMAIN fs \cup {p} |-> IF q = p THEN NodeFile(data) ELSE fs[q]]

\* fs.unlinkSync
Unlink(fs, p) == [q \in DOMAIN fs \ {p} |-> fs[q]]

----------------------------------------------------------------------------
\* Steps and configuration.  An optional boolean of the source is "unset",
\* "true" or "false"; a hook is "none" (not defined) or names what the
\* callback does when it is invoked.

Opt == {"unset", "true", "false"}

\* x ?? d
OrElse(x, d) == IF x = "unset" THEN d ELSE x = "true"

\* step.variables: a map, or a function that yields a map when it is called
VariablesAs(t, m) == [t |-> t, m |-> m]

NoVariables == VariablesAs("map", <<>>)

\* version: undefined, a string (cut so that a tag is a piece of its own),
\* or a map from dependency names to versions
NoVersion == [t |-> "undefined", s |-> <<>>, m |-> <<>>]

VersionString(pieces) == [t |-> "string", s |-> pieces, m |-> <<>>]

VersionMap(deps) == [t |-> "object", s |-> <<>>, m |-> deps]

\* step.renameFiles: undefined, or a map from file names to file names
NoRenameFiles == [given |-> FALSE, m |-> <<>>]

Renames(m) == [given |-> TRUE, m |-> m]

Step(from, to, pre, post, checkEmpty, override) ==
  [ from |-> from, to |-> to, preHook |-> pre, postHook |-> post,
    checkEmpty |-> checkEmpty, override |-> override, skipFiles |-> {},
    isMergePackageJson |-> FALSE, packageName |-> "", via |-> "",
    variables |-> NoVariables, version |-> NoVersion, renameFiles |-> NoRenameFiles ]

CopyStep(from, to) == Step(from, to, "none", "none", "unset", "unset")

\* What a hook returns: nothing, or additional steps.
HookSteps(hook) ==
  CASE hook = "inject" ->
         << [CopyStep("cmd", <<Plain("tools")>>) EXCEPT !.preHook = "throw", !.postHook = "injectKid"],
            Step("", <<>>, "none", "void", "unset", "unset") >>
    [] hook = "injectCheck" ->
         << Step("base", <<>>, "none", "none", "true", "unset") >>
    [] hook = "injectKid" ->
         << CopyStep("kid", <<Plain("pkg")>>) >>
    [] OTHER -> <<>>

\* Faulty variant: an error thrown by a hook is swallowed.
HookThrowsSwallowed(hook) == FALSE

HookThrows(hook) == hook = "throw"

\* renameFiles = { gitignore: '.gitignore' }
DefaultRenameFiles == [n \in {Plain("gitignore")} |-> Plain(".gitignore")]

\* renameFiles[file] || file
RenameOf(renameFiles, file) ==
  IF file \in DOMAIN renameFiles THEN renameFiles[file] ELSE file

----------------------------------------------------------------------------
\* Variables and substitution

\* One entry of a VariablesMap.  A key is the sequence of its pieces of
\* text, " " for white space; a value is a string, a number or a boolean.
Var(key, value) == [key |-> key, value |-> value]

StringValue(pieces) == [t |-> "string", s |-> pieces, n |-> 0, b |-> FALSE]

NumberValue(n) == [t |-> "number", s |-> <<>>, n |-> n, b |-> FALSE]

BooleanValue(b) == [t |-> "boolean", s |-> <<>>, n |-> 0, b |-> b]

\* String(value), as pieces
String(value) ==
  CASE value.t = "number" -> <<Lit(ToString(value.n))>>
    [] value.t = "boolean" -> <<Lit(IF value.b THEN "true" ELSE "false")>>
    [] OTHER -> value.s

RECURSIVE Join(_)
\* The string made of the given strings
Join(strings) == IF strings = <<>> THEN "" ELSE Head(strings) \o Join(Tail(strings))

RECURSIVE Trim(_)
\* key.trim()
Trim(key) ==
  IF key = <<>> THEN key
  ELSE IF Head(key) = " " THEN Trim(Tail(key))
  ELSE IF key[Len(key)] = " " THEN Trim(SubSeq(key, 1, Len(key) - 1))
  ELSE key

\* `{{${key.trim()}}}`; escaped, the pattern matches this text and no other
Placeholder(key) == Tok(Join(Trim(key)))

\* What String.prototype.replace puts in the place of a match: in the
\* replacement "$$" stands for "$" and "$&" for the matched text.
Expand(replacement, matched) ==
  [n \in 1..Len(replacement) |->
     IF replacement[n] = Lit("$&") THEN matched
     ELSE IF replacement[n] = Lit("$$") THEN Lit("$")
     ELSE replacement[n]]

RECURSIVE Replace(_, _, _)
\* text.replace(new RegExp(escapeRegExp(placeholder), 'g'), replacement)
Replace(text, placeholder, replacement) ==
  IF text = <<>> THEN <<>>
  ELSE (IF Head(text) = placeholder THEN Expand(replacement, placeholder) ELSE <<Head(text)>>)
       \o Replace(Tail(text), placeholder, replacement)

RECURSIVE Substitute(_, _)
\* for (const key in variables): one replace after the other, each on the
\* result of the one before
Substitute(text, variables) ==
  IF variables = <<>> THEN text
  ELSE Substitute(Replace(text, Placeholder(Head(variables).key), String(Head(variables).value)),
                  Tail(variables))

\* The destination name with the variables replaced in it
SubstituteName(name, variables) ==
  IF name.k = "tmpl" THEN Plain(Flat(Substitute(name.parts, variables))) ELSE name

\* Faulty variant: no file is taken for binary.
isBinaryNever(data, opens) == FALSE

\* isBinary: a zero byte among the first 512 bytes; false when the file
\* cannot be opened.
isBinary(data, opens) ==
  IF ~opens THEN FALSE ELSE data.zero > 0 /\ data.zero <= BinaryWindow

\* White space at either end of a text is a piece of its own.
WhiteSpace == { Lit(" "), Lit("\n") }

RECURSIVE Literals(_)
\* The text with the literal pieces that follow one another made one
Literals(text) ==
  IF Len(text) < 2 THEN text
  ELSE IF text[1].k = "lit" /\ text[2].k = "lit" /\ text[1] \notin WhiteSpace /\ text[2] \notin WhiteSpace
         THEN Literals(<<Lit(text[1].s \o text[2].s)>> \o SubSeq(text, 3, Len(text)))
         ELSE <<text[1]>> \o Literals(Tail(text))

\* The content of a file written with the given text: held as pieces if
\* placeholders or white space pieces are left in it
Written(data, text) ==
  IF \E n \in 1..Len(text) : text[n].k = "tok" \/ text[n] \in WhiteSpace
    THEN [data EXCEPT !.v = "", !.parts = Literals(text)]
    ELSE [data EXCEPT !.v = Flat(text), !.parts = <<>>]

\* FileTemplater.replaceInFileAndUpdate
replaceInFileAndUpdate(data, variables) == Written(data, Substitute(Parts(data), variables))

RECURSIVE TrimText(_)
\* fs.readFileSync(commandFile, 'utf8').trim()
TrimText(text) ==
  IF text = <<>> THEN text
  ELSE IF Head(text) \in WhiteSpace THEN TrimText(Tail(text))
  ELSE IF text[Len(text)] \in WhiteSpace THEN TrimText(SubSeq(text, 1, Len(text) - 1))
  ELSE text

\* Faulty variant: the command is executed as the file holds it.
commandContentRaw(data, variables) == Content(data)

\* executePrepareCommands: the content of the command file, trimmed, with
\* the variables replaced in it
commandContent(data, variables) == Flat(Substitute(TrimText(Parts(data)), variables))

\* Faulty variant: the command runs in the destination of the step.
WorkingDirectoryOfStep(commandFile, targetDir) == targetDir

\* path.dirname(commandFile)
WorkingDirectory(commandFile, targetDir) == SubSeq(commandFile, 1, Len(commandFile) - 1)

----------------------------------------------------------------------------
\* package.json handling

PreReleaseTags == {"alpha", "beta", "rc", "canary", "nightly"}

\* Faulty variant: every version is taken for a stable one.
isStableVersionAlways(ver) == TRUE

\* isStableVersion: ver.includes(tag) for none of the tags
isStableVersion(ver) == \A tag \in PreReleaseTags : \A n \in 1..Len(ver) : ver[n] # tag

\* const targetVersion = isStableVersion(version) ? `^${version}` : version
TargetVersion(ver) == IF isStableVersion(ver) THEN "^" \o Join(ver) ELSE Join(ver)

\* content.replaceAll('workspace:*', targetVersion) on one string of the
\* document
ReplaceWorkspace(str, targetVersion) == IF str = "workspace:*" THEN targetVersion ELSE str

\* The replaceAll on the whole content
ReplaceWorkspaceAll(data, targetVersion) ==
  [data EXCEPT !.v = ReplaceWorkspace(@, targetVersion),
               !.version = ReplaceWorkspace(@, targetVersion),
               !.deps = [n \in 1..Len(@) |->
                           Dep(ReplaceWorkspace(@[n].name, targetVersion),
                               ReplaceWorkspace(@[n].ver, targetVersion))],
               !.dev = [n \in 1..Len(@) |->
                          Dep(ReplaceWorkspace(@[n].name, targetVersion),
                              ReplaceWorkspace(@[n].ver, targetVersion))]]

\* for (const [depName, ver] of Object.entries(version)):
\* if (pkg.dependencies?.[depName]) pkg.dependencies[depName] = ver
OverwriteDeps(deps, versionMap) ==
  [n \in 1..Len(deps) |->
     LET S == { k \in 1..Len(versionMap) : versionMap[k].name = deps[n].name }
     IN  IF S # {} /\ deps[n].ver # ""
           THEN Dep(deps[n].name, versionMap[CHOOSE k \in S : \A j \in S : j <= k].ver)
           ELSE deps[n]]

\* updatePackageJson: the version patch, JSON.parse which throws on a
\* malformed document, the name set when a package name is given and is
\* not '.'.
updatePackageJson(data, version, name) ==
  LET content == IF version.t = "string" /\ data.t = "json"
                   THEN ReplaceWorkspaceAll(data, TargetVersion(version.s)) ELSE data
      pkg == IF version.t = "object"
               THEN [content EXCEPT !.deps = OverwriteDeps(@, version.m),
                                    !.dev = OverwriteDeps(@, version.m)]
               ELSE content
  IN  IF data.t # "json" THEN [err |-> "SyntaxError", data |-> data]
      ELSE [err |-> "", data |-> IF name # "" /\ name # "." THEN [pkg EXCEPT !.v = name] ELSE pkg]

\* The key names of the model in the order Array.prototype.sort gives them.
KeyOrder == <<"a", "b", "c", "core", "zz">>

KeyRank(name) == CHOOSE r \in 1..Len(KeyOrder) : KeyOrder[r] = name

RECURSIVE SortedObject(_)
\* Object.keys(obj).sort() and the object rebuilt in that order
SortedObject(entries) ==
  IF entries = <<>> THEN <<>>
  ELSE LET least == CHOOSE n \in 1..Len(entries) :
                      \A m \in 1..Len(entries) : KeyRank(entries[n].name) <= KeyRank(entries[m].name)
       IN  <<entries[least]>>
           \o SortedObject([m \in 1..(Len(entries) - 1) |->
                              IF m < least THEN entries[m] ELSE entries[m + 1]])

\* Faulty variant: the keys of the existing document win.
SpreadTargetWins(targetData, extraData, name) ==
  [ Data("json", name) EXCEPT
      !.version = IF targetData.version # "" THEN targetData.version ELSE extraData.version,
      !.has = targetData.has \/ extraData.has,
      !.deps = IF targetData.has THEN targetData.deps ELSE extraData.deps,
      !.hasDev = targetData.hasDev \/ extraData.hasDev,
      !.dev = IF targetData.hasDev THEN targetData.dev ELSE extraData.dev ]

\* { ...targetJson, ...extraJson } with name set afterwards: a top-level key
\* of the incoming document replaces the target's, "dependencies" as a whole.
Spread(targetData, extraData, name) ==
  [ Data("json", name) EXCEPT
      !.version = IF extraData.version # "" THEN extraData.version ELSE targetData.version,
      !.has = targetData.has \/ extraData.has,
      !.deps = IF extraData.has THEN extraData.deps ELSE targetData.deps,
      !.hasDev = targetData.hasDev \/ extraData.hasDev,
      !.dev = IF extraData.hasDev THEN extraData.dev ELSE targetData.dev ]

\* mergePackageJson: JSON.parse throws on a malformed document;
\* mergedJson.name = targetJson.name || extraJson.name; the keys of
\* scripts, dependencies and devDependencies are sorted, all three by the
\* same loop, of which "dependencies" and "devDependencies" are modelled.
mergePackageJson(targetData, extraData) ==
  IF targetData.t # "json" \/ extraData.t # "json"
    THEN [err |-> "SyntaxError", data |-> targetData]
    ELSE LET mergedJson == Spread(targetData, extraData,
                                  IF targetData.v # "" THEN targetData.v ELSE extraData.v)
         IN  [err |-> "", data |-> [mergedJson EXCEPT !.deps = SortedObject(mergedJson.deps),
                                                      !.dev = SortedObject(mergedJson.dev)]]

----------------------------------------------------------------------------
\* copyTemplateWithVariables.  CopyEntries is its loop over readdirSync(from):
\* st is [fs, err] and the loop stops at the first error thrown.  The
\* options carry, next to the arguments of the call, the files of the
\* template whose copy cannot be opened by isBinary (openFails) and cannot
\* be read by replaceInFile (readFails), which logs a warning and goes on.

RECURSIVE CopyEntries(_, _, _, _, _, _)
\* Faulty variant: the relative path of the entry is not looked at.
SkipsByName(allSkipFiles, file, currentRelativePath) ==
  <<file>> \in allSkipFiles \/ IsInheritanceFile(file)

\* allSkipFiles.has(file) || allSkipFiles.has(currentRelativePath) ||
\* (file.startsWith('<inherit:') && file.endsWith('>'))
Skips(allSkipFiles, file, currentRelativePath) ==
  \/ <<file>> \in allSkipFiles
  \/ currentRelativePath \in allSkipFiles
  \/ IsInheritanceFile(file)

CopyEntries(st, entries, i, to, relativePath, opt) ==
  IF st.err # "" \/ i > Len(entries) THEN st
  ELSE
    LET e == entries[i]
        currentRelativePath == Append(relativePath, e.name)
        allSkipFiles == {<<Plain("dist")>>, <<Plain("node_modules")>>} \cup opt.skipFiles
        distFile == Append(to, SubstituteName(RenameOf(opt.renameFiles, e.name), opt.variables))
        targetPackage == Append(to, PackageJson)
        next ==
          IF Skips(allSkipFiles, e.name, currentRelativePath)
            THEN st
          ELSE IF e.dir
            THEN CopyEntries([st EXCEPT !.fs = MkdirP(st.fs, distFile)], e.sub, 1, distFile,
                             currentRelativePath,
                             [opt EXCEPT !.isMergePackageJson = FALSE, !.packageName = "",
                                         !.version = NoVersion])
          ELSE IF e.name = PackageJson
            THEN IF opt.isMergePackageJson /\ Exists(st.fs, targetPackage)
                   THEN LET m == mergePackageJson(st.fs[targetPackage].data, e.data)
                        IN  IF m.err # "" THEN [st EXCEPT !.err = m.err]
                            ELSE [st EXCEPT !.fs = WriteFile(st.fs, targetPackage, m.data)]
                   ELSE LET u == updatePackageJson(e.data, opt.version, opt.packageName)
                        IN  [fs |-> WriteFile(st.fs, distFile, IF u.err = "" THEN u.data ELSE e.data),
                             err |-> u.err]
          ELSE IF opt.variables # <<>> /\ ~isBinary(e.data, e.name \notin opt.openFails)
                  /\ e.name \notin opt.readFails
            THEN [st EXCEPT !.fs = WriteFile(st.fs, distFile,
                                             replaceInFileAndUpdate(e.data, opt.variables))]
          ELSE [st EXCEPT !.fs = WriteFile(st.fs, distFile, e.data)]
    IN CopyEntries(next, entries, i + 1, to, relativePath, opt)

\* Faulty variants: a copy that throws leaves nothing behind; the destination
\* is made before the source is looked at.
copyTemplateAllOrNothing(fs, from, to, opt) ==
  LET r == IF ~TemplateExists(from)
             THEN [fs |-> fs, err |-> "Source template directory does not exist"]
             ELSE CopyEntries([fs |-> MkdirP(fs, to), err |-> ""], Lib[from], 1, to, <<>>, opt)
  IN  IF r.err # "" THEN [fs |-> fs, err |-> r.err] ELSE r

copyTemplateMkdirFirst(fs, from, to, opt) ==
  IF ~TemplateExists(from)
    THEN [fs |-> MkdirP(fs, to), err |-> "Source template directory does not exist"]
    ELSE CopyEntries([fs |-> MkdirP(fs, to), err |-> ""], Lib[from], 1, to, <<>>, opt)

\* The call of executeStep, once its prompt (if any) was answered with yes: the
\* existence check, the mkdir of the destination, the loop.
copyTemplateWithVariables(fs, from, to, opt) ==
  IF ~TemplateExists(from)
    THEN [fs |-> fs, err |-> "Source template directory does not exist"]
    ELSE CopyEntries([fs |-> MkdirP(fs, to), err |-> ""], Lib[from], 1, to, <<>>, opt)

\* Faulty variant: subdirectories are not searched.
findPrepareCommandFilesFlat(fs, dir) ==
  { p \in DOMAIN fs : /\ IsPrefix(dir, p) /\ Len(p) = Len(dir) + 1
                      /\ ~fs[p].dir /\ p[Len(p)] = PrepareName }

\* findPrepareCommandFiles: the files named <prepare_command> in the subtree
\* of dir.
findPrepareCommandFiles(fs, dir) ==
  { p \in DOMAIN fs : /\ IsPrefix(dir, p) /\ Len(p) > Len(dir)
                      /\ ~fs[p].dir /\ p[Len(p)] = PrepareName }

----------------------------------------------------------------------------
\* Inheritance resolution

DirKey(t, p) == [t |-> t, p |-> p]

\* fs.readdirSync(templatePath(t))
TemplateEntries(t) == IF TemplateExists(t) THEN Lib[t] ELSE <<>>

RECURSIVE EntriesAt(_, _)
\* The entries of the directory at path p below a directory with `entries`.
EntriesAt(entries, p) ==
  IF p = <<>> THEN entries
  ELSE LET S == { n \in 1..Len(entries) : entries[n].dir /\ entries[n].name = Head(p) }
       IN  IF S = {} THEN <<>> ELSE EntriesAt(entries[CHOOSE n \in S : TRUE].sub, Tail(p))

\* The directories a call on directory key passes to its nested calls: the
\* subdirectories and the existing templates its markers name.
NestedDirs(key) ==
  LET entries == EntriesAt(TemplateEntries(key.t), key.p)
  IN  { DirKey(key.t, Append(key.p, entries[n].name)) :
          n \in { k \in 1..Len(entries) : entries[k].dir } }
      \cup
      { DirKey(entries[n].name.n, <<>>) :
          n \in { k \in 1..Len(entries) :
                    /\ ~entries[k].dir /\ IsInheritanceFile(entries[k].name)
                    /\ TemplateExists(entries[k].name.n) } }

RECURSIVE ReachClosure(_)
ReachClosure(S) ==
  LET N == S \cup UNION { NestedDirs(key) : key \in S }
  IN  IF N = S THEN S ELSE ReachClosure(N)

\* Every directory the resolution of template t can be called on.
ReachableDirs(t) == ReachClosure({DirKey(t, <<>>)})

\* A nested call that goes on has added a directory to processedTemplates,
\* so the calls for template t nest no deeper than one per reachable
\* directory and a last one.
MaxNesting(t) == Cardinality(ReachableDirs(t)) + 1

\* defaultLogger.warn messages
CircularWarning(key) == [w |-> "Circular inheritance detected for template", of |-> key]

NotFoundWarning(t) == [w |-> "Inherited template not found", of |-> DirKey(t, <<>>)]

FailedWarning(key) == [w |-> "Failed to process inheritance files in", of |-> key]

\* What one call of processInheritanceFiles yields: the returned steps, the
\* warnings logged in order, the deepest nesting of calls it reached, and
\* the directories the call and its nested calls added to their sets.
Resolved(stepList, warn, depth) ==
  [steps |-> stepList, warn |-> warn, depth |-> depth, added |-> {}]

\* Faulty variant: the nested calls work on the set of their caller.
OwnSetShared(processedTemplates, added) == processedTemplates \cup added

\* new Set(processedTemplates): a nested call gets a copy, so what the nested
\* calls before it added does not reach the set of the caller
OwnSet(processedTemplates, added) == processedTemplates

\* Faulty variant: no protection against circular inheritance.
AlreadyProcessedNever(key, processedTemplates) == FALSE

\* processedTemplates.has(templateDir)
AlreadyProcessed(key, processedTemplates) == key \in processedTemplates

\* Faulty variant: the inherited template is not looked for.
InheritedTemplateAssumed(t) == TRUE

\* fs.existsSync(inheritedTemplatePath)
InheritedTemplateExists(t) == TemplateExists(t)

\* Faulty variant: the relative path does not accumulate.
SubRelativePathFlat(relativePath, file) == <<file>>

\* relativePath ? path.join(relativePath, file) : file
SubRelativePath(relativePath, file) == Append(relativePath, file)

\* Faulty variant: the inherited template goes before its own ancestors.
WithNestedAfter(nestedSteps, step) == <<step>> \o nestedSteps

\* inheritanceSteps.push(...nestedInheritanceSteps, {from, to, variables})
WithNested(nestedSteps, step) == nestedSteps \o <<step>>

\* Faulty variant: the directory is not added to processedTemplates.
MarkProcessedNot(key, processedTemplates) == processedTemplates

\* processedTemplates.add(templateDir)
MarkProcessed(key, processedTemplates) == processedTemplates \cup {key}

RECURSIVE InheritanceLoop(_, _, _, _, _, _)
\* processInheritanceFiles on the directory key with entries `entries`, as
\* the call nested depth deep: the steps of the inherited templates,
\* ancestors first.  readdirSync throws for a directory that does not exist,
\* which the catch turns into a warning.  Every call above this one has
\* added its directory to processedTemplates; the evaluation of the model
\* does not follow a chain of calls that is longer than that, which has
\* entered a directory a second time and in the code would not end.
processInheritanceFiles(key, entries, processedTemplates, relativePath, depth) ==
  IF depth > Cardinality(processedTemplates) + 1 THEN Resolved(<<>>, <<>>, depth)
  ELSE IF AlreadyProcessed(key, processedTemplates)
    THEN Resolved(<<>>, <<CircularWarning(key)>>, depth)
  ELSE IF ~TemplateExists(key.t)
    THEN Resolved(<<>>, <<FailedWarning(key)>>, depth)
  ELSE [InheritanceLoop(key, entries, 1, MarkProcessed(key, processedTemplates),
                        relativePath, depth)
          EXCEPT !.added = @ \cup (MarkProcessed(key, processedTemplates) \ processedTemplates)]

\* inheritanceSteps.push(...nestedSteps) and then the step of the inherited
\* template itself
InheritedSteps(nested, step) ==
  [Resolved(WithNested(nested.steps, step), nested.warn, nested.depth)
     EXCEPT !.added = nested.added]

\* The steps of one entry followed by the steps of the entries after it
StepsInOrder(here, rest) ==
  [Resolved(here.steps \o rest.steps, here.warn \o rest.warn,
            IF here.depth > rest.depth THEN here.depth ELSE rest.depth)
     EXCEPT !.added = here.added \cup rest.added]

\* The loop goes on with the entries after entry i, whose steps are `here`.
LoopAfter(here, key, entries, i, processedTemplates, relativePath, depth) ==
  StepsInOrder(here, InheritanceLoop(key, entries, i + 1,
                                     OwnSet(processedTemplates, here.added),
                                     relativePath, depth))

InheritanceLoop(key, entries, i, processedTemplates, relativePath, depth) ==
  IF i > Len(entries) THEN Resolved(<<>>, <<>>, depth)
  ELSE
    LET e == entries[i]
        here ==
          IF ~e.dir /\ IsInheritanceFile(e.name)
            THEN IF e.name.n = "" THEN Resolved(<<>>, <<>>, depth)
                 ELSE IF InheritedTemplateExists(e.name.n)
                   THEN InheritedSteps(processInheritanceFiles(
                                         DirKey(e.name.n, <<>>), TemplateEntries(e.name.n),
                                         processedTemplates, relativePath, depth + 1),
                                       CopyStep(e.name.n, relativePath))
                   ELSE Resolved(<<>>, <<NotFoundWarning(e.name.n)>>, depth)
          ELSE IF e.dir
            THEN processInheritanceFiles(DirKey(key.t, Append(key.p, e.name)), e.sub,
                                         processedTemplates,
                                         SubRelativePath(relativePath, e.name), depth + 1)
          ELSE Resolved(<<>>, <<>>, depth)
    IN LoopAfter(here, key, entries, i, processedTemplates, relativePath, depth)

RECURSIVE getInheritanceFileNames(_, _)
\* The relative paths of the inheritance files of a template directory.
getInheritanceFileNames(entries, relativePath) ==
  IF entries = <<>> THEN {}
  ELSE LET e == Head(entries)
           here == IF ~e.dir /\ IsInheritanceFile(e.name) THEN {Append(relativePath, e.name)}
                   ELSE IF e.dir THEN getInheritanceFileNames(e.sub, Append(relativePath, e.name))
                   ELSE {}
       IN here \cup getInheritanceFileNames(Tail(entries), relativePath)

----------------------------------------------------------------------------
\* The builder and one run of its step list

VARIABLES
  config,   \* ProjectBuilderConfig: checkEmpty, override, packageName
  steps,    \* this.steps
  last,     \* the latest registration call and whether it threw
  target,   \* the directory tree at config.targetDir
  target0,  \* the directory tree the run found
  mode,     \* how the step list is run: "build", "single" or "actions"
  pc,       \* position of the run
  cur,      \* [i, ph, k]: step index, phase of executeStepWithHooks, index of the additional step
  inj,      \* the additional steps the current hook returned
  pending,  \* prepare command files found and not yet handled
  marker,   \* the prepare command file whose command is running
  active,   \* the hooks, copies and prepare commands that have started and not finished
  trace,    \* the steps entered, the hooks, copies, prepare commands and prompts
            \* started, the answers given and the error thrown, in order
  err,      \* the error the run rejected with
  env,      \* the file system's failures: the files that cannot be opened or read
  stepVariables, \* resolvedVariables of the latest executeStep
  cwd,      \* the working directory of the latest prepare command
  runner    \* an ActionRunner: its actions, the position of run(), previousResult,
            \* the calls of execute made and the error run() rejected with

vars == <<config, steps, last, target, target0, mode, pc, cur, inj, pending, marker, active, trace, err, env,
          stepVariables, cwd, runner>>

Root == <<>>

\* The step shapes handed to addStep.
StepShapes ==
  { Step("cmd", Root, "inject", "inject", "unset", "unset"),
    Step("bad", Root, "injectCheck", "none", "unset", "unset"),
    Step("base", Root, "void", "throw", "true", "false"),
    CopyStep("ghost", Root),
    Step("", Root, "none", "none", "unset", "unset") }

\* The arrays handed to addSteps.
StepLists ==
  { << Step("", Root, "none", "none", "unset", "unset") >>,
    << CopyStep("base", Root), Step("", Root, "inject", "none", "unset", "unset") >>,
    << CopyStep("duo", Root), Step("", Root, "injectKid", "none", "unset", "unset") >>,
    << CopyStep("base", Root), [CopyStep("pkg", Root) EXCEPT !.isMergePackageJson = TRUE] >>,
    << Step("base", Root, "none", "none", "true", "unset"),
       Step("pkg", Root, "none", "none", "true", "unset") >> }

\* The directories handed to loadTemplate.
LoadDirs == {"base", "kid", "duo", "ghost", "trio", "dia", "ca", "self", "deep", "app"}

\* A variable whose key is "name"
NameIs(value) == << Var(<<"name">>, StringValue(<< Lit(value) >>)) >>

\* The maps a variables function yields, one call or another
FnResults == { NameIs("one"), NameIs("two") }

\* step.variables resolved: the map, or what the function yields
Resolutions(variables) == IF variables.t = "function" THEN FnResults ELSE {variables.m}

\* The options of loadTemplate: to and variables
LoadOpts(to, variables) == [to |-> to, variables |-> variables]

NoOpts == LoadOpts(Root, NoVariables)

\* The options a template directory is loaded with.
LoadOptions(templateDir) ==
  IF templateDir = "app"
    THEN { NoOpts,
           LoadOpts(<<Plain("out")>>, VariablesAs("map", NameIs("one"))),
           LoadOpts(Root, VariablesAs("function", <<>>)) }
    ELSE { NoOpts }

\* The states config.targetDir is found in.
Targets ==
  { [p \in {} |-> NodeDir],
    [p \in {Root, <<GitDir>>} |-> NodeDir],
    [p \in {Root, <<Plain("old.txt")>>} |->
       IF p = Root THEN NodeDir ELSE NodeFile(Text("old"))] }

\* A registration call: the method, its argument, whether it threw, and for
\* loadTemplate the inheritance steps it resolved, the warnings logged and
\* the deepest nesting of processInheritanceFiles.
Call(op, step, threw) ==
  [op |-> op, step |-> step, threw |-> threw, inherited |-> <<>>, warn |-> <<>>, depth |-> 0]

NoCall == Call("none", CopyStep("", Root), FALSE)

Via(step, op) == [step EXCEPT !.via = op]

Event(ev, c, what) == [ev |-> ev, i |-> c.i, ph |-> c.ph, k |-> c.k, what |-> what]

\* The hook, copy or prepare command running at position c
Op(ev, c) == [ev |-> ev, i |-> c.i, ph |-> c.ph, k |-> c.k]

\* No file fails to open or to be read.
NoFailures == [openFails |-> {}, readFails |-> {}]

\* new ActionRunner(context)
NoRunner ==
  [actions |-> <<>>, pc |-> "idle", previousResult |-> "undefined", calls |-> <<>>, err |-> ""]

Init ==
  /\ config \in [checkEmpty : Opt, override : BOOLEAN, packageName : {""}, version : {NoVersion}]
  /\ env = NoFailures
  /\ steps = <<>>
  /\ last = NoCall
  /\ target \in Targets
  /\ target0 = target
  /\ mode = ""
  /\ pc = "idle"
  /\ cur = [i |-> 0, ph |-> "check", k |-> 0]
  /\ inj = <<>>
  /\ pending = {}
  /\ marker = Root
  /\ stepVariables = <<>>
  /\ cwd = Root
  /\ runner = NoRunner
  /\ active = {}
  /\ trace = <<>>
  /\ err = ""

----------------------------------------------------------------------------
\* Registration

\* Faulty variant: addStep does not validate.
HasFromOrHookUnchecked(step) == TRUE

\* addStep's validation: the step has a template path or hooks
HasFromOrHook(step) == step.from # "" \/ step.preHook # "none" \/ step.postHook # "none"

AddStep(step) ==
  /\ pc = "idle"
  /\ IF ~HasFromOrHook(step)
       THEN /\ last' = Call("addStep", step, TRUE)
            /\ UNCHANGED steps
       ELSE /\ Len(steps) < MaxSteps
            /\ steps' = Append(steps, Via(step, "addStep"))
            /\ last' = Call("addStep", step, FALSE)
  /\ UNCHANGED <<env, runner, stepVariables, cwd, config, target, target0, mode, pc, cur, inj, pending, marker, active, trace, err>>

AddSteps(list) ==
  /\ pc = "idle"
  /\ Len(steps) + Len(list) <= MaxSteps
  /\ steps' = steps \o [n \in 1..Len(list) |-> Via(list[n], "addSteps")]
  /\ last' = Call("addSteps", list[1], FALSE)
  /\ UNCHANGED <<env, runner, stepVariables, cwd, config, target, target0, mode, pc, cur, inj, pending, marker, active, trace, err>>

\* loadTemplate: const inheritanceSteps = this.processInheritanceFiles(templateDir, ...)
InheritanceSteps(templateDir) ==
  processInheritanceFiles(DirKey(templateDir, <<>>), Lib[templateDir], {}, <<>>, 1)

\* Faulty variant: only the main template step is registered.
LoadTemplateStepsMainOnly(templateDir, options, resolvedVariables) ==
  << [CopyStep(templateDir, options.to) EXCEPT
        !.skipFiles = getInheritanceFileNames(Lib[templateDir], <<>>),
        !.variables = options.variables] >>

\* The steps loadTemplate registers for an existing template directory:
\* the inheritance steps, each with the variables resolved by loadTemplate,
\* then the main step with the variables as they were given.
LoadTemplateSteps(templateDir, options, resolvedVariables) ==
  LET inheritanceSteps == InheritanceSteps(templateDir).steps
  IN  [n \in 1..Len(inheritanceSteps) |->
         [inheritanceSteps[n] EXCEPT !.variables = VariablesAs("map", resolvedVariables)]]
      \o << [CopyStep(templateDir, options.to) EXCEPT
               !.skipFiles = getInheritanceFileNames(Lib[templateDir], <<>>),
               !.variables = options.variables] >>

\* The builder of the model holds at most MaxSteps steps when they are added
\* one call after another; a template loaded into an empty builder brings as
\* many steps as its inheritance resolves to.
LoadTemplate(templateDir, options) ==
  /\ pc = "idle"
  /\ IF ~TemplateExists(templateDir)
       THEN /\ last' = Call("loadTemplate", CopyStep(templateDir, options.to), TRUE)
            /\ UNCHANGED steps
       ELSE \E resolvedVariables \in Resolutions(options.variables) :
              LET new == LoadTemplateSteps(templateDir, options, resolvedVariables)
                  res == InheritanceSteps(templateDir)
              IN  /\ steps = <<>> \/ Len(steps) + Len(new) <= MaxSteps
                  /\ \A n \in 1..Len(new) : HasFromOrHook(new[n])
                  /\ steps' = steps \o [n \in 1..Len(new) |-> Via(new[n], "loadTemplate")]
                  /\ last' = [Call("loadTemplate",
                                   [CopyStep(templateDir, options.to)
                                      EXCEPT !.variables = options.variables], FALSE)
                                EXCEPT !.inherited = res.steps, !.warn = res.warn,
                                       !.depth = res.depth]
  /\ UNCHANGED <<env, runner, stepVariables, cwd, config, target, target0, mode, pc, cur, inj, pending, marker, active, trace, err>>

----------------------------------------------------------------------------
\* The emptiness checks

\* this.config.checkEmpty ?? true
shouldCheckEmpty == OrElse(config.checkEmpty, TRUE)

\* The condition of build() and of the directory check action of toActions()
AsksBeforeSteps ==
  shouldCheckEmpty /\ ~config.override /\ Exists(target, Root) /\ ~isEmptyDir(target, Root)

\* The condition of the action of toSingleAction()
AsksInSingleAction == shouldCheckEmpty /\ ~isEmptyDir(target, Root)

\* Faulty variant: the first step asks again.
StepCheckEmptyAlways(step, isFirstStep) == OrElse(step.checkEmpty, FALSE)

\* executeStep: isFirstStep ? false : (step.checkEmpty ?? false)
StepCheckEmpty(step, isFirstStep) ==
  IF isFirstStep THEN FALSE ELSE OrElse(step.checkEmpty, FALSE)

\* executeStep: step.override ?? this.config.override ?? false
StepOverride(step) == OrElse(step.override, config.override)

\* executeStep: step.to ? path.resolve(targetDir, step.to) : targetDir
TargetPath(step) == step.to

\* Faulty variant: the destination is not looked at.
AsksInCopyAnyDir(step, isFirstStep) ==
  StepCheckEmpty(step, isFirstStep) /\ ~StepOverride(step)

\* The condition of the prompt in copyTemplateWithVariables
AsksInCopy(step, isFirstStep) ==
  /\ StepCheckEmpty(step, isFirstStep) /\ ~StepOverride(step)
  /\ Exists(target, TargetPath(step)) /\ ~isEmptyDir(target, TargetPath(step))

\* The prompt is answered with continue ("yes"), with abort ("no"), or is
\* cancelled.
Answers == {"yes", "no", "cancel"}

\* checkCancel: isCancel(value)
Cancelled(a) == a = "cancel"

\* Faulty variant: the answer is not looked at.
DeclinedNever(a) == FALSE

\* if (option === 'no') / if (!shouldContinue)
Declined(a) == a = "no"

\* An error thrown in the run: nothing catches it, the run rejects with it.
Fail(e) ==
  /\ pc' = "failed"
  /\ err' = e
  /\ active' = {}
  /\ trace' = Append(trace, Event("throw", cur, e))

----------------------------------------------------------------------------
\* Starting a run

EnterLoop ==
  /\ pc' = "loop"
  /\ cur' = [i |-> 1, ph |-> "pre", k |-> 0]

AskBeforeSteps ==
  /\ pc' = "ask"
  /\ trace' = Append(trace, Event("ask", cur, ""))
  /\ UNCHANGED cur

Build ==
  /\ pc = "idle"
  /\ mode' = "build"
  /\ IF steps = <<>>
       THEN /\ Fail("No template steps configured")
            /\ UNCHANGED cur
       ELSE /\ IF AsksBeforeSteps THEN AskBeforeSteps ELSE EnterLoop /\ UNCHANGED trace
            /\ UNCHANGED <<err, active>>
  /\ UNCHANGED <<env, runner, stepVariables, cwd, config, steps, last, target, target0, inj, pending, marker>>

ToSingleAction ==
  /\ pc = "idle"
  /\ mode' = "single"
  /\ IF steps = <<>>
       THEN Fail("No template steps configured")
       ELSE pc' = "action" /\ UNCHANGED <<err, active, trace>>
  /\ UNCHANGED <<env, runner, stepVariables, cwd, config, steps, last, target, target0, cur, inj, pending, marker>>

\* execute() of the action toSingleAction() returned
ExecuteSingleAction ==
  /\ pc = "action"
  /\ mode = "single"
  /\ IF AsksInSingleAction THEN AskBeforeSteps ELSE EnterLoop /\ UNCHANGED trace
  /\ UNCHANGED <<env, runner, stepVariables, cwd, config, steps, last, target, target0, mode, inj, pending, marker, active, err>>

ToActions ==
  /\ pc = "idle"
  /\ mode' = "actions"
  /\ pc' = "action"
  /\ UNCHANGED <<env, runner, stepVariables, cwd, config, steps, last, target, target0, cur, inj, pending, marker, active, trace, err>>

\* The list of toActions() run in order: the directory check action comes
\* first when shouldCheckEmpty, then one action per step.
ExecuteDirectoryCheck ==
  /\ pc = "action"
  /\ mode = "actions"
  /\ IF shouldCheckEmpty /\ AsksBeforeSteps THEN AskBeforeSteps ELSE EnterLoop /\ UNCHANGED trace
  /\ UNCHANGED <<env, runner, stepVariables, cwd, config, steps, last, target, target0, mode, inj, pending, marker, active, err>>

\* The user's answer to the prompt before the steps: checkCancel exits the
\* process on a cancelled prompt.
Answer(a) ==
  /\ pc = "ask"
  /\ CASE Cancelled(a) ->
            /\ pc' = "exited"
            /\ trace' = Append(trace, Event("answer", cur, a))
            /\ UNCHANGED <<cur, err, active>>
       [] ~Cancelled(a) /\ Declined(a) ->
            /\ pc' = "failed"
            /\ err' = "Operation cancelled by user"
            /\ trace' = trace \o <<Event("answer", cur, a), Event("throw", cur, err')>>
            /\ UNCHANGED <<cur, active>>
       [] OTHER ->
            /\ EnterLoop
            /\ trace' = Append(trace, Event("answer", cur, a))
            /\ UNCHANGED <<err, active>>
  /\ UNCHANGED <<env, runner, stepVariables, cwd, config, steps, last, target, target0, mode, inj, pending, marker>>

----------------------------------------------------------------------------
\* The loop over the steps and executeStepWithHooks

\* Faulty variant: the loop skips every other step.
NextIndexSkipping(i) == i + 2

\* for (let i = 0; i < this.steps.length; i++)
NextIndex(i) == i + 1

\* The step executeStep is working on: the step of the loop, or an
\* additional step a hook returned.
CurStep == IF cur.ph = "main" THEN steps[cur.i] ELSE inj[cur.k]

\* executeStepWithHooks(step, i === 0) passes isFirstStep on for the step
\* itself and false for additional steps.
IsFirstStep == cur.ph = "main" /\ cur.i = 1

\* Faulty variant: the postHook taken before the copy and the preHook after it.
HookOfSwapped(step, ph) == IF ph = "pre" THEN step.postHook ELSE step.preHook

HookOf(step, ph) == IF ph = "pre" THEN step.preHook ELSE step.postHook

LoopStep ==
  /\ pc = "loop"
  /\ IF cur.i > Len(steps)
       THEN pc' = "done" /\ UNCHANGED <<cur, trace>>
       ELSE /\ pc' = "hook"
            /\ cur' = [cur EXCEPT !.ph = "pre", !.k = 0]
            /\ trace' = Append(trace, Event("step", cur', steps[cur.i].from))
  /\ UNCHANGED <<env, runner, stepVariables, cwd, config, steps, last, target, target0, mode, inj, pending, marker, active, err>>

\* The code after a hook and its additional steps: the step's own copy after
\* the preHook, the next step of the loop after the postHook.
AfterHook ==
  IF cur.ph = "pre"
    THEN pc' = "main" /\ cur' = [cur EXCEPT !.ph = "main", !.k = 0]
    ELSE pc' = "loop" /\ cur' = [i |-> NextIndex(cur.i), ph |-> "pre", k |-> 0]

\* if (step.preHook) / if (step.postHook): invoke the hook
InvokeHook ==
  /\ pc = "hook"
  /\ LET hook == HookOf(steps[cur.i], cur.ph)
     IN  IF hook = "none"
           THEN AfterHook /\ UNCHANGED <<active, trace>>
           ELSE /\ pc' = "hookWait"
                /\ active' = active \cup {Op("hook", cur)}
                /\ trace' = Append(trace, Event("hook", cur, hook))
                /\ UNCHANGED cur
  /\ UNCHANGED <<env, runner, stepVariables, cwd, config, steps, last, target, target0, mode, inj, pending, marker, err>>

\* The hook throws or returns its additional steps.
HookReturns ==
  /\ pc = "hookWait"
  /\ LET hook == HookOf(steps[cur.i], cur.ph)
     IN  IF HookThrows(hook)
           THEN Fail("hook failed") /\ UNCHANGED <<cur, inj>>
           ELSE /\ active' = active \ {Op("hook", cur)}
                /\ inj' = HookSteps(hook)
                /\ cur' = [cur EXCEPT !.k = 1]
                /\ pc' = "additional"
                /\ UNCHANGED <<err, trace>>
  /\ UNCHANGED <<env, runner, stepVariables, cwd, config, steps, last, target, target0, mode, pending, marker>>

\* executeStep has returned: the postHook follows the step's own copy, the
\* next additional step follows an additional step.
Return ==
  IF cur.ph = "main"
    THEN pc' = "hook" /\ cur' = [cur EXCEPT !.ph = "post", !.k = 0]
    ELSE pc' = "additional" /\ cur' = [cur EXCEPT !.k = cur.k + 1]

\* for (const additionalStep of additionalSteps) await executeStep(additionalStep, false)
AdditionalStep ==
  /\ pc = "additional"
  /\ IF cur.k > Len(inj)
       THEN AfterHook /\ inj' = <<>>
       ELSE pc' = "exec" /\ UNCHANGED <<cur, inj>>
  /\ UNCHANGED <<env, runner, stepVariables, cwd, config, steps, last, target, target0, mode, pending, marker, active, trace, err>>

\* if (step.from) await executeStep(step, isFirstStep)
MainStep ==
  /\ pc = "main"
  /\ IF steps[cur.i].from = ""
       THEN pc' = "hook" /\ cur' = [cur EXCEPT !.ph = "post", !.k = 0]
       ELSE pc' = "exec" /\ UNCHANGED cur
  /\ UNCHANGED <<env, runner, stepVariables, cwd, config, steps, last, target, target0, mode, inj, pending, marker, active, trace, err>>

----------------------------------------------------------------------------
\* executeStep

\* mergedConfig
CopyOptions(step, resolvedVariables) ==
  [ skipFiles |-> step.skipFiles,
    renameFiles |-> IF step.renameFiles.given THEN step.renameFiles.m ELSE DefaultRenameFiles,
    isMergePackageJson |-> step.isMergePackageJson,
    packageName |-> IF step.packageName # "" THEN step.packageName ELSE config.packageName,
    variables |-> resolvedVariables,
    version |-> IF step.version.t # "undefined" THEN step.version ELSE config.version,
    openFails |-> env.openFails,
    readFails |-> env.readFails ]

\* Faulty variant: a step without from is copied like any other.
IsHookOnlyNever(step) == FALSE

\* if (!step.from) return
IsHookOnly(step) == step.from = ""

\* executeStep up to the prompt of copyTemplateWithVariables
ExecuteStep ==
  /\ pc = "exec"
  /\ IF IsHookOnly(CurStep)
       THEN Return /\ UNCHANGED <<active, trace>>
       ELSE /\ active' = active \cup {Op("copy", cur)}
            /\ UNCHANGED cur
            /\ IF TemplateExists(CurStep.from) /\ AsksInCopy(CurStep, IsFirstStep)
                 THEN /\ pc' = "copyAsk"
                      /\ trace' = trace \o <<Event("copy", cur, CurStep.from), Event("ask", cur, "")>>
                 ELSE /\ pc' = "copy"
                      /\ trace' = Append(trace, Event("copy", cur, CurStep.from))
  /\ UNCHANGED <<env, runner, stepVariables, cwd, config, steps, last, target, target0, mode, inj, pending, marker, err>>

\* The user's answer to the prompt of copyTemplateWithVariables
CopyAnswer(a) ==
  /\ pc = "copyAsk"
  /\ CASE Cancelled(a) ->
            /\ pc' = "exited"
            /\ trace' = Append(trace, Event("answer", cur, a))
            /\ UNCHANGED <<err, active>>
       [] ~Cancelled(a) /\ Declined(a) ->
            /\ pc' = "failed"
            /\ err' = "Operation cancelled by user"
            /\ active' = {}
            /\ trace' = trace \o <<Event("answer", cur, a), Event("throw", cur, err')>>
       [] OTHER ->
            /\ pc' = "copy"
            /\ trace' = Append(trace, Event("answer", cur, a))
            /\ UNCHANGED <<err, active>>
  /\ UNCHANGED <<env, runner, stepVariables, cwd, config, steps, last, target, target0, mode, cur, inj, pending, marker>>

\* copyTemplateWithVariables from its existence check on, then the scan of
\* executePrepareCommands
CopyTemplate ==
  /\ pc = "copy"
  /\ \E resolvedVariables \in Resolutions(CurStep.variables) :
       LET r == copyTemplateWithVariables(target, CurStep.from, TargetPath(CurStep),
                                          CopyOptions(CurStep, resolvedVariables))
       IN
         /\ stepVariables' = resolvedVariables
         /\ target' = r.fs
         /\ IF r.err # ""
              THEN Fail(r.err) /\ UNCHANGED pending
              ELSE /\ active' = active \ {Op("copy", cur)}
                   /\ pending' = findPrepareCommandFiles(r.fs, TargetPath(CurStep))
                   /\ pc' = "prepare"
                   /\ UNCHANGED <<err, trace>>
  /\ UNCHANGED <<env, runner, cwd, config, steps, last, target0, mode, cur, inj, marker>>

\* executePrepareCommands: the next command file; an empty command is not
\* executed and its file is removed at once.
PrepareCommand ==
  /\ pc = "prepare"
  /\ IF pending = {}
       THEN Return /\ UNCHANGED <<target, pending, marker, cwd, active, trace>>
       ELSE \E commandFile \in pending :
              LET command == commandContent(target[commandFile].data, stepVariables)
              IN  IF command # ""
                    THEN /\ pc' = "prepareWait"
                         /\ marker' = commandFile
                         /\ cwd' = WorkingDirectory(commandFile, TargetPath(CurStep))
                         /\ active' = active \cup {Op("prepare", cur)}
                         /\ trace' = Append(trace, Event("prepare", cur, command))
                         /\ UNCHANGED <<target, pending, cur>>
                    ELSE /\ target' = Unlink(target, commandFile)
                         /\ pending' = pending \ {commandFile}
                         /\ UNCHANGED <<pc, cur, marker, cwd, active, trace>>
  /\ UNCHANGED <<env, runner, stepVariables, config, steps, last, target0, mode, inj, err>>

\* The command's process closes with exit code 0 or not.
CommandExit(ok) ==
  /\ pc = "prepareWait"
  /\ IF ok
       THEN /\ target' = Unlink(target, marker)
            /\ pending' = pending \ {marker}
            /\ active' = active \ {Op("prepare", cur)}
            /\ pc' = "prepare"
            /\ UNCHANGED <<err, trace>>
       ELSE Fail("Command exited with code") /\ UNCHANGED <<target, pending>>
  /\ UNCHANGED <<env, runner, stepVariables, cwd, config, steps, last, target0, mode, cur, inj, marker>>

----------------------------------------------------------------------------

Next ==
  \/ \E step \in StepShapes : AddStep(step)
  \/ \E list \in StepLists : AddSteps(list)
  \/ \E templateDir \in LoadDirs : \E options \in LoadOptions(templateDir) :
       LoadTemplate(templateDir, options)
  \/ Build
  \/ ToSingleAction
  \/ ExecuteSingleAction
  \/ ToActions
  \/ ExecuteDirectoryCheck
  \/ \E a \in Answers : Answer(a)
  \/ LoopStep
  \/ InvokeHook
  \/ HookReturns
  \/ AdditionalStep
  \/ MainStep
  \/ ExecuteStep
  \/ \E a \in Answers : CopyAnswer(a)
  \/ CopyTemplate
  \/ PrepareCommand
  \/ \E ok \in BOOLEAN : CommandExit(ok)

Spec == Init /\ [][Next]_vars

----------------------------------------------------------------------------
\* executeStep on its own: one call of executeStep(step, true) for a step,
\* a configuration, a target directory and file system failures drawn from
\* the sets below.

VariableMaps ==
  { <<>>,
    NameIs("App"),
    << Var(<<" ", "name", " ">>, StringValue(<< Lit("App") >>)) >>,
    << Var(<<"name">>, StringValue(<< Lit("a"), Lit("$&") >>)) >>,
    << Var(<<"name">>, StringValue(<< Lit("$$") >>)) >>,
    << Var(<<"name">>, StringValue(<< Tok("other") >>)),
       Var(<<"other">>, StringValue(<< Lit("X") >>)) >>,
    << Var(<<"name">>, NumberValue(7)), Var(<<"other">>, BooleanValue(TRUE)) >> }

Versions ==
  { NoVersion,
    VersionString(<<"1.2.3">>),
    VersionString(<<"1.2.3", "-", "beta">>),
    VersionString(<<"2.0.0", "-", "rc", ".1">>),
    VersionString(<<"3.0.0", "-", "next">>),
    VersionMap(<< Dep("a", "9"), Dep("zz", "1") >>) }

CopyDirs == {"comp", "mono", "pkg", "cmd"}

\* A version map for template devs: dependencies it has, one of them with
\* the empty range, and one it has not
DevVersions == VersionMap(<< Dep("a", "9"), Dep("zz", "1"), Dep("b", "5"), Dep("q", "7") >>)

OldPackage ==
  [JsonDeps("old", << Dep("b", "0"), Dep("a", "0") >>) EXCEPT !.version = "0.0.1"]

CopyTargets ==
  { [p \in {} |-> NodeDir],
    [p \in {Root, <<PackageJson>>, <<Plain("packages")>>, <<Plain("packages"), PackageJson>>} |->
       IF p \in {Root, <<Plain("packages")>>} THEN NodeDir ELSE NodeFile(OldPackage)],
    [p \in {Root, <<PackageJson>>, <<Plain("old")>>, <<Plain("old"), PrepareName>>} |->
       CASE p = <<PackageJson>> -> NodeFile(Json(""))
         [] p = <<Plain("old"), PrepareName>> -> NodeFile(Text("make old"))
         [] OTHER -> NodeDir] }

Failures ==
  { NoFailures,
    [openFails |-> {Plain("logo.png")}, readFails |-> {}],
    [openFails |-> {Plain("logo.png"), Plain("late.dat")}, readFails |-> {Plain("logo.png")}] }

\* The values of renameFiles template base is copied with
RenameMaps ==
  { NoRenameFiles,
    Renames([n \in {Plain("gitignore")} |-> Plain(".npmignore")]),
    Renames([n \in {Plain("a.txt")} |-> Plain("b.txt")]),
    Renames(<<>>) }

\* The values of skipFiles template tree is copied with
SkipLists ==
  { {},
    { <<Plain("skip.txt")>> },
    { <<Plain("src"), Plain("skip.txt")>> },
    { <<Plain("src"), Plain("lib")>> },
    { <<Plain("lib"), Plain("deep.txt")>> },
    { <<Plain("src")>>, <<Plain("keep.txt")>> } }

CopyShapes ==
  { [CopyStep(from, Root) EXCEPT !.variables = VariablesAs("map", m), !.version = v,
                                 !.isMergePackageJson = mg, !.packageName = pn] :
      from \in CopyDirs, m \in VariableMaps, v \in Versions, mg \in BOOLEAN,
      pn \in {"", "own"} }
  \cup { [CopyStep("tree", Root) EXCEPT !.skipFiles = skipFiles] : skipFiles \in SkipLists }
  \cup { [CopyStep("base", Root) EXCEPT !.renameFiles = renameFiles] : renameFiles \in RenameMaps }
  \cup { [CopyStep("devs", Root) EXCEPT !.version = v, !.packageName = pn] :
           v \in {NoVersion, DevVersions}, pn \in {"", "own", "."} }

InitCopy ==
  /\ config \in [checkEmpty : {"unset"}, override : {TRUE}, packageName : {"", ".", "cfg"},
                  version : {NoVersion, VersionString(<<"0.9.0">>)}]
  /\ env \in Failures
  /\ steps \in { << Via(step, "addStep") >> : step \in CopyShapes }
  /\ last = NoCall
  /\ target \in CopyTargets
  /\ target0 = target
  /\ mode = "build"
  /\ pc = "exec"
  /\ cur = [i |-> 1, ph |-> "main", k |-> 0]
  /\ inj = <<>>
  /\ pending = {}
  /\ marker = Root
  /\ stepVariables = <<>>
  /\ cwd = Root
  /\ runner = NoRunner
  /\ active = {}
  /\ trace = <<>>
  /\ err = ""

NextCopy ==
  \/ ExecuteStep
  \/ CopyTemplate
  \/ PrepareCommand
  \/ \E ok \in BOOLEAN : CommandExit(ok)

SpecCopy == InitCopy /\ [][NextCopy]_vars

----------------------------------------------------------------------------
\* ActionRunner

\* An action: its name; execute() returns ResultOf(action) or throws
\* ErrorOf(action).
ActionNames == {"check", "copy", "build"}

ResultOf(name) == "result of " \o name

ErrorOf(name) == "error of " \o name

\* One call of execute: the action called, the previousResult it was given,
\* and whether it is running, has returned or has thrown
CallOf(name, previousResult) ==
  [name |-> name, previousResult |-> previousResult, outcome |-> "running"]

\* addAction(action)
AddAction(name) ==
  /\ runner.pc = "idle"
  /\ Len(runner.actions) < MaxActions
  /\ runner' = [runner EXCEPT !.actions = Append(@, name)]
  /\ UNCHANGED <<config, steps, last, target, target0, mode, pc, cur, inj, pending, marker, active,
                 trace, err, env, stepVariables, cwd>>

\* run() up to its loop: let previousResult: ActionResult | undefined
Run ==
  /\ runner.pc = "idle"
  /\ runner' = [runner EXCEPT !.pc = "loop", !.previousResult = "undefined"]
  /\ UNCHANGED <<config, steps, last, target, target0, mode, pc, cur, inj, pending, marker, active,
                 trace, err, env, stepVariables, cwd>>

\* for (const action of this.actions): action.execute(this.context,
\* previousResult) is called, or the loop is over and run() resolves
Execute ==
  /\ runner.pc = "loop"
  /\ LET n == Len(runner.calls) + 1
     IN  IF n > Len(runner.actions)
           THEN runner' = [runner EXCEPT !.pc = "resolved"]
           ELSE runner' = [runner EXCEPT
                             !.pc = "await",
                             !.calls = Append(@, CallOf(runner.actions[n], runner.previousResult))]
  /\ UNCHANGED <<config, steps, last, target, target0, mode, pc, cur, inj, pending, marker, active,
                 trace, err, env, stepVariables, cwd>>

\* Faulty variant: previousResult stays what it was.
StoredResultKept(previousResult, currentResult) == previousResult

\* previousResult = currentResult
StoredResult(previousResult, currentResult) == currentResult

\* execute() returns currentResult
ActionReturns ==
  /\ runner.pc = "await"
  /\ LET n == Len(runner.calls)
     IN  runner' = [runner EXCEPT
                      !.pc = "loop",
                      !.calls[n].outcome = "returned",
                      !.previousResult = StoredResult(@, ResultOf(runner.actions[n]))]
  /\ UNCHANGED <<config, steps, last, target, target0, mode, pc, cur, inj, pending, marker, active,
                 trace, err, env, stepVariables, cwd>>

\* execute() throws: catch (error) { ...; throw error }
ActionThrows ==
  /\ runner.pc = "await"
  /\ LET n == Len(runner.calls)
     IN  runner' = [runner EXCEPT
                      !.pc = "rejected",
                      !.calls[n].outcome = "threw",
                      !.err = ErrorOf(runner.actions[n])]
  /\ UNCHANGED <<config, steps, last, target, target0, mode, pc, cur, inj, pending, marker, active,
                 trace, err, env, stepVariables, cwd>>

NextRunner ==
  \/ \E name \in ActionNames : AddAction(name)
  \/ Run
  \/ Execute
  \/ ActionReturns
  \/ ActionThrows

SpecRunner == Init /\ [][NextRunner]_vars

----------------------------------------------------------------------------
\* Reading the trace

Positions == 1..Len(trace)

IsOp(e) == e.ev \in {"hook", "copy", "prepare"}

\* The place of an event inside executeStepWithHooks: the preHook, the
\* additional steps of the preHook, the step's own copy, the postHook, the
\* additional steps of the postHook.
Stage(e) ==
  CASE e.ph = "pre" /\ e.k = 0 -> 1
    [] e.ph = "pre" /\ e.k > 0 -> 2
    [] e.ph = "main" -> 3
    [] e.ph = "post" /\ e.k = 0 -> 4
    [] e.ph = "post" /\ e.k > 0 -> 5
    [] OTHER -> 0

\* Within one executeStep the copy comes before the prepare commands.
Turn(e) == IF e.ev = "prepare" THEN 2 ELSE 1

InOrder(e, f) ==
  \/ Stage(e) < Stage(f)
  \/ Stage(e) = Stage(f) /\ e.k < f.k
  \/ Stage(e) = Stage(f) /\ e.k = f.k /\ Turn(e) < Turn(f)
  \/ Stage(e) = Stage(f) /\ e.k = f.k /\ e.ev = "prepare" /\ f.ev = "prepare"

\* The steps whose executeStepWithHooks has returned
Finished == { j \in 1..Len(steps) : j < cur.i }

CopiesOf(j, ph, list) ==
  { [ev |-> "copy", i |-> j, ph |-> ph, k |-> k, what |-> list[k].from] :
      k \in { n \in 1..Len(list) : list[n].from # "" } }

HookEventOf(j, ph, hook) ==
  IF hook = "none" THEN {}
  ELSE { [ev |-> "hook", i |-> j, ph |-> ph, k |-> 0, what |-> hook] }

\* The hooks and copies executeStepWithHooks makes for step j when nothing throws
ExpectedOps(j) ==
  LET s == steps[j]
  IN  HookEventOf(j, "pre", s.preHook) \cup CopiesOf(j, "pre", HookSteps(s.preHook))
      \cup (IF s.from = "" THEN {}
            ELSE { [ev |-> "copy", i |-> j, ph |-> "main", k |-> 0, what |-> s.from] })
      \cup HookEventOf(j, "post", s.postHook) \cup CopiesOf(j, "post", HookSteps(s.postHook))

OpsOf(j) == { trace[n] : n \in { m \in Positions : trace[m].i = j /\ trace[m].ev \in {"hook", "copy"} } }

\* A template with a non-empty prepare command at its root
HasCommand(t) ==
  /\ t \in TemplateNames
  /\ \E n \in 1..Len(Lib[t]) : Lib[t][n].name = PrepareName /\ Lib[t][n].data.v # ""

----------------------------------------------------------------------------
\* C1: for every step build() executes, the events come in this order: the
\* step's preHook, the steps the preHook returned in returned order, the
\* step's own copy (only if from is set) followed by its prepare commands,
\* the postHook, the steps the postHook returned in returned order.  Every
\* two hooks, copies and prepare commands of one step are in that order in
\* the trace, none happens twice, a prepare command follows the copy of its
\* own executeStep, and a finished step has made exactly the hooks and copies
\* its definition calls for.
C1_HookExecutionOrder ==
  /\ \A a, b \in Positions :
       (a < b /\ trace[a].i = trace[b].i /\ IsOp(trace[a]) /\ IsOp(trace[b]))
         => InOrder(trace[a], trace[b])
  /\ \A b \in Positions :
       trace[b].ev = "prepare" =>
         \E a \in 1..(b - 1) :
           /\ trace[a].ev = "copy" /\ trace[a].i = trace[b].i
           /\ trace[a].ph = trace[b].ph /\ trace[a].k = trace[b].k
  /\ \A j \in Finished :
       /\ OpsOf(j) = ExpectedOps(j)
       /\ \A e \in OpsOf(j) :
            (e.ev = "copy" /\ HasCommand(e.what)) =>
              \E n \in Positions :
                trace[n].ev = "prepare" /\ trace[n].i = j /\ trace[n].ph = e.ph /\ trace[n].k = e.k

\* A step with both hooks, both returning steps, and a copy with a prepare
\* command has run to its end.
C1_Witness ==
  /\ pc = "done"
  /\ \E j \in 1..Len(steps) :
       /\ steps[j].from # "" /\ HasCommand(steps[j].from)
       /\ HookSteps(steps[j].preHook) # <<>> /\ HookSteps(steps[j].postHook) # <<>>
       /\ Cardinality(OpsOf(j)) >= 5

----------------------------------------------------------------------------
IsStepEvent(e) == e.ev = "step"

StepEvents == SelectSeq(trace, IsStepEvent)

\* C2: build() processes the registered steps strictly in registration order
\* and one at a time.  The steps are entered in the order 1, 2, ... with none
\* left out or repeated, and all of them once the run is done; the events of
\* a step never come after an event of a later step; at most one hook, copy or
\* prepare command is active at any time, it belongs to the step the loop is
\* at, and none is active when the loop moves on to the next step.
C2_OneStepAtATime ==
  /\ \A m \in 1..Len(StepEvents) :
       StepEvents[m].i = m /\ StepEvents[m].what = steps[m].from
  /\ pc = "done" => Len(StepEvents) = Len(steps)
  /\ \A a, b \in Positions : a < b => trace[a].i <= trace[b].i
  /\ Cardinality(active) <= 1
  /\ \A o \in active : o.i = cur.i
  /\ pc \in {"loop", "hook", "main", "additional", "exec", "done"} => active = {}

\* Two steps, each with a hook, copy or prepare command of its own, have run.
C2_Witness ==
  /\ pc = "done"
  /\ Len(steps) = 2
  /\ \A j \in 1..2 : \E n \in Positions : trace[n].i = j /\ IsOp(trace[n])

----------------------------------------------------------------------------
\* The step an event of the trace belongs to
StepOfEvent(e) ==
  IF e.ph = "main" THEN steps[e.i]
  ELSE HookSteps(IF e.ph = "pre" THEN steps[e.i].preHook ELSE steps[e.i].postHook)[e.k]

\* A hook or copy that throws once it runs (a prepare command may fail or not)
Throwing(e) ==
  \/ e.ev = "hook" /\ e.what = "throw"
  \/ e.ev = "copy" /\ e.what \notin TemplateNames
  \/ e.ev = "copy" /\ e.what = "bad"

\* C3: when a hook, copy or prepare command throws during a run, the run
\* rejects with that error and no hook, copy or prepare command runs
\* afterwards.  An error thrown is the last event of the trace and is the
\* error of the failed run; after the start of a hook or copy that throws
\* nothing but its own prompt and its error follows, and the run does not go on.
C3_FailFast ==
  /\ \A n \in Positions :
       trace[n].ev = "throw" =>
         n = Len(trace) /\ pc = "failed" /\ err = trace[n].what /\ active = {}
  /\ \A a \in Positions :
       Throwing(trace[a]) =>
         /\ \A b \in (a + 1)..Len(trace) : trace[b].ev \in {"ask", "answer", "throw"}
         /\ pc \in {"hookWait", "copyAsk", "copy", "failed", "exited"}
         /\ pc = "failed" => err = trace[Len(trace)].what
  /\ pc = "failed" => trace # <<>> /\ trace[Len(trace)].ev = "throw"

\* A hook, a copy and a prepare command have each thrown in some run with
\* steps left to do.
C3_Witness ==
  /\ pc = "failed"
  /\ cur.i < Len(steps)
  /\ Len(trace) >= 2
  /\ trace[Len(trace) - 1].ev = "prepare"

C3_WitnessHook ==
  /\ pc = "failed"
  /\ cur.i < Len(steps)
  /\ err = "hook failed"

\* The variables whose key, trimmed, is id
VariablesFor(id, variables) ==
  { n \in 1..Len(variables) : Join(Trim(variables[n].key)) = id }

RECURSIVE Exactly(_, _)
\* The text in which every placeholder of a variable has given way to
\* String(value), character for character, and every other placeholder is
\* as it was
Exactly(text, variables) ==
  IF text = <<>> THEN ""
  ELSE LET piece == Head(text)
           S == IF piece.k = "tok" THEN VariablesFor(piece.s, variables) ELSE {}
       IN  (IF S = {} THEN Flat(<<piece>>)
            ELSE Flat(String(variables[CHOOSE n \in S : TRUE].value)))
           \o Exactly(Tail(text), variables)

----------------------------------------------------------------------------
\* The files at the root of template t that a copy has written when it stops:
\* every file up to and including a package.json that cannot be parsed.
WrittenBeforeError(t) ==
  { n \in 1..Len(Lib[t]) :
      /\ ~Lib[t][n].dir
      /\ ~IsInheritanceFile(Lib[t][n].name)
      /\ Lib[t][n].name # PrepareName
      /\ \A m \in 1..(n - 1) : Lib[t][m].data # BadJson }

Max(S) == CHOOSE x \in S : \A y \in S : y <= x

\* The copies of existing templates that went past their prompt
CopyPositions ==
  { n \in Positions :
      /\ trace[n].ev = "copy" /\ trace[n].what \in TemplateNames
      /\ ~(/\ n + 2 <= Len(trace) /\ trace[n + 1].ev = "ask"
           /\ trace[n + 2].ev = "answer" /\ trace[n + 2].what # "yes") }

\* C4: when a run fails, every file already written to the target by earlier
\* steps, and by the failing step before the error, is left as written: the
\* files of every copy made are still in the target, and the files the last
\* copy wrote hold what it wrote.
C4_NoRollback ==
  pc = "failed" =>
    \A n \in CopyPositions :
      LET e == trace[n]
          to == StepOfEvent(e).to
      IN  \A f \in WrittenBeforeError(e.what) :
            LET p == Append(to, RenameOf(DefaultRenameFiles, Lib[e.what][f].name))
            IN  /\ Exists(target, p)
                /\ ~target[p].dir
                /\ (n = Max(CopyPositions) /\ Lib[e.what][f].name # PackageJson)
                     => IF Lib[e.what][f].data.parts = <<>>
                          THEN target[p].data = Lib[e.what][f].data
                          ELSE Content(target[p].data) =
                                 Exactly(Lib[e.what][f].data.parts, stepVariables)

\* A copy stopped at a package.json that cannot be parsed, after a file of its
\* own and after an earlier copy.
C4_Witness ==
  /\ pc = "failed"
  /\ err = "SyntaxError"
  /\ Cardinality(CopyPositions) >= 2

----------------------------------------------------------------------------
NoFromNoHooks(step) == step.from = "" /\ step.preHook = "none" /\ step.postHook = "none"

\* C5: after any sequence of addStep, addSteps and loadTemplate calls, every
\* step in the builder's step list has a from path or at least one hook.
C5_EveryStepHasFromOrHook ==
  \A n \in 1..Len(steps) : ~NoFromNoHooks(steps[n])

----------------------------------------------------------------------------
\* C6: addStep called with a step that has no from, no preHook and no
\* postHook throws at once and leaves the step list unchanged, and no run
\* executes that step: the call is recorded as thrown, the transition of the
\* call does not change the list, and no step that addStep put into the list,
\* hence none a run enters, lacks both from and hooks.
C6_AddStepRejects ==
  /\ [](/\ (last.op = "addStep" /\ NoFromNoHooks(last.step)) => last.threw
        /\ \A n \in 1..Len(steps) : steps[n].via = "addStep" => ~NoFromNoHooks(steps[n])
        /\ \A m \in 1..Len(StepEvents) :
             /\ StepEvents[m].i \in 1..Len(steps)
             /\ steps[StepEvents[m].i].via = "addStep" => ~NoFromNoHooks(steps[StepEvents[m].i]))
  /\ [][(pc = "idle" /\ pc' = "idle" /\ last'.op = "addStep" /\ NoFromNoHooks(last'.step))
          => steps' = steps]_vars

\* A run has ended after addStep rejected a step, the list holding the steps
\* registered before.
C6_Witness ==
  /\ pc = "done"
  /\ last.op = "addStep" /\ NoFromNoHooks(last.step) /\ last.threw
  /\ steps # <<>>

----------------------------------------------------------------------------
\* C7: a step whose from directory does not exist is accepted by addStep; the
\* run then fails with 'Source template directory does not exist' when that
\* step's copy is reached, before any file of the step is written: the copy's
\* start is followed by that error and nothing else, and the transition of
\* the copy leaves the target as it was.
C7_MissingSource ==
  /\ [](/\ (last.op = "addStep" /\ last.step.from # "" /\ ~TemplateExists(last.step.from))
             => (~last.threw /\ \E n \in 1..Len(steps) : steps[n] = Via(last.step, "addStep"))
        /\ \A n \in Positions :
             (trace[n].ev = "copy" /\ ~TemplateExists(trace[n].what)) =>
               \/ n = Len(trace) /\ pc = "copy"
               \/ /\ n + 1 = Len(trace) /\ pc = "failed"
                  /\ trace[n + 1].ev = "throw"
                  /\ err = "Source template directory does not exist")
  /\ [][(pc = "copy" /\ ~TemplateExists(CurStep.from)) => target' = target]_vars

\* build() has failed at the copy of a step addStep accepted, its directory
\* missing, with no target directory there before.
C7_Witness ==
  /\ pc = "failed" /\ mode = "build"
  /\ err = "Source template directory does not exist"
  /\ cur.ph = "main" /\ steps[cur.i].via = "addStep"
  /\ ~Exists(target, Root)

----------------------------------------------------------------------------
\* C8: the question of the emptiness check before the steps is put to the
\* user only when checkEmpty is enabled (default true), the target directory
\* exists and is non-empty, and override is not set, whichever way the step
\* list is run.
C8_AskOnlyWhenNotOverridden ==
  \A n \in Positions :
    (trace[n].ev = "ask" /\ trace[n].ph = "check") =>
      /\ shouldCheckEmpty
      /\ Exists(target0, Root) /\ ~isEmptyDir(target0, Root)
      /\ ~config.override

----------------------------------------------------------------------------
AskPositions == { n \in Positions : trace[n].ev = "ask" }

----------------------------------------------------------------------------
\* C10: if the user answers abort at the emptiness check of build(), build()
\* rejects with 'Operation cancelled by user', no step was entered, no hook
\* invoked, no copy made, no prepare command run, and the target directory is
\* as it was found.
C10_AbortBeforeSteps ==
  \A n \in Positions :
    (mode = "build" /\ trace[n].ev = "answer" /\ trace[n].ph = "check" /\ trace[n].what = "no") =>
      /\ pc = "failed"
      /\ err = "Operation cancelled by user"
      /\ target = target0
      /\ \A m \in Positions : trace[m].ev \in {"ask", "answer", "throw"}

\* The user has aborted build() on a non-empty target with steps registered.
C10_Witness ==
  /\ mode = "build" /\ pc = "failed" /\ steps # <<>>
  /\ \E n \in Positions : trace[n].ev = "answer" /\ trace[n].what = "no" /\ trace[n].ph = "check"
  /\ ~isEmptyDir(target, Root)

----------------------------------------------------------------------------
\* Inheritance as the templates declare it

RECURSIVE MarkerNames(_)
\* The template names of the inheritance markers in a directory tree.
MarkerNames(entries) ==
  IF entries = <<>> THEN {}
  ELSE LET e == Head(entries)
           here == IF e.dir THEN MarkerNames(e.sub)
                   ELSE IF e.name.k = "inherit" /\ e.name.n # "" THEN {e.name.n}
                   ELSE {}
       IN here \cup MarkerNames(Tail(entries))

\* The existing templates t inherits from directly, and those it names
\* that do not exist.
Parents(t) == MarkerNames(Lib[t]) \cap TemplateNames

MissingParents(t) == MarkerNames(Lib[t]) \ TemplateNames

RECURSIVE Closure(_)
Closure(S) ==
  LET N == S \cup UNION { Parents(x) : x \in S }
  IN IF N = S THEN S ELSE Closure(N)

Ancestors(t) == Closure(Parents(t))

\* No template t inherits from, nor t itself, is among its own ancestors.
Acyclic(t) == \A x \in Ancestors(t) \cup {t} : x \notin Ancestors(x)

\* The latest registration was loadTemplate of an existing template.
Loaded == last.op = "loadTemplate" /\ ~last.threw

\* The steps that call registered, the template's own step last.
LoadedSteps == SubSeq(steps, Len(steps) - Len(last.inherited), Len(steps))

Froms(list) == [n \in 1..Len(list) |-> list[n].from]

\* The builder holds nothing but the steps of the latest loadTemplate.
OnlyLoaded == Loaded /\ Len(steps) = Len(last.inherited) + 1

----------------------------------------------------------------------------
\* The text files at the top of a step's template, as the step writes them:
\* destination path, template, content.
Provided(step) ==
  { [path |-> Append(step.to, RenameOf(DefaultRenameFiles, Lib[step.from][n].name)),
     t |-> step.from, data |-> Lib[step.from][n].data] :
      n \in { k \in 1..Len(Lib[step.from]) :
                LET e == Lib[step.from][k]
                IN  /\ ~e.dir /\ e.name.k = "plain" /\ e.data.t = "text"
                    /\ e.name # PrepareName } }

\* x inherits from y and not y from x.
MoreDerived(x, y) == y \in Ancestors(x) /\ x \notin Ancestors(y)

\* C12: after loadTemplate(T) and a finished run, a file path provided by
\* more than one template of T's inheritance holds the content of a template
\* that no other template providing the path is derived from.
C12_MostDerivedWins ==
  (pc = "done" /\ OnlyLoaded) =>
    LET all == UNION { Provided(steps[n]) : n \in 1..Len(steps) }
    IN  \A a \in all :
          LET provs == { b \in all : b.path = a.path }
              best  == { b \in provs : ~\E c \in provs : MoreDerived(c.t, b.t) }
          IN  /\ Exists(target, a.path)
              /\ target[a.path].data \in { b.data : b \in best }

----------------------------------------------------------------------------
HasWarning(w) == \E n \in 1..Len(last.warn) : last.warn[n] = w

\* C13: inheritance resolution terminates for every set of templates,
\* cycles and self-inheritance included: whatever template is loaded, the
\* calls of processInheritanceFiles never nest deeper than one call per
\* directory the template reaches and a last one, and every call's loop runs
\* over the finitely many entries of one directory.
C13_ResolutionTerminates ==
  Loaded =>
    /\ last.depth >= 1
    /\ last.depth <= Cardinality(ReachableDirs(last.step.from)) + 1
    /\ Len(last.inherited) + 1 <= Len(steps)

\* A template that inherits from itself has been loaded.
C13_Witness ==
  /\ Loaded /\ last.step.from = "self"
  /\ "self" \in Parents("self")
  /\ Froms(steps) = <<"self", "self">>

----------------------------------------------------------------------------
\* C14: with ca inheriting cb and cb inheriting ca, resolving ca's ancestors
\* yields a list that contains cb exactly once, a circular-inheritance
\* warning is logged, and the resolution ends.
C14_CycleResolvedOnce ==
  (Loaded /\ last.step.from = "ca") =>
    /\ Cardinality({ n \in 1..Len(last.inherited) : last.inherited[n].from = "cb" }) = 1
    /\ \E n \in 1..Len(last.warn) :
         last.warn[n].w = "Circular inheritance detected for template"
    /\ last.depth <= Cardinality(ReachableDirs("ca")) + 1

\* loadTemplate has resolved the two templates that inherit from each other.
C14_Witness ==
  /\ Loaded /\ last.step.from = "ca"
  /\ "ca" \in Parents("cb") /\ "cb" \in Parents("ca")
  /\ HasWarning(CircularWarning(DirKey("ca", <<>>)))

----------------------------------------------------------------------------
CopyEventsOf(t) == { n \in 1..Len(trace) : trace[n].ev = "copy" /\ trace[n].what = t }

\* C15: with the circular inheritance ca -> cb -> ca, loadTemplate(ca)
\* followed by a run materializes each of the two templates exactly once.
C15_CycleMaterializedOnce ==
  (pc = "done" /\ OnlyLoaded /\ last.step.from = "ca") =>
    /\ Cardinality(CopyEventsOf("ca")) = 1
    /\ Cardinality(CopyEventsOf("cb")) = 1

----------------------------------------------------------------------------
\* C16: a marker naming a template whose directory does not exist makes
\* loadTemplate log a warning and leave out that ancestor only: the call
\* does not throw, a step is registered for every ancestor that exists and
\* for the loaded template, none for the missing one, and a run of these
\* steps does not fail for a missing directory and, when it ends,
\* has materialized the loaded template.
C16_MissingAncestorSkipped ==
  (Loaded /\ MissingParents(last.step.from) # {}) =>
    LET T == last.step.from
        L == LoadedSteps
    IN  /\ \A g \in MissingParents(T) : HasWarning(NotFoundWarning(g))
        /\ \A n \in 1..Len(L) : TemplateExists(L[n].from)
        /\ { L[n].from : n \in 1..Len(L) } = Ancestors(T) \cup {T}
        /\ L[Len(L)].from = T
        /\ OnlyLoaded =>
             /\ err # "Source template directory does not exist"
             /\ pc = "done" =>
                  /\ CopyEventsOf(T) # {}
                  /\ \A a \in Provided(L[Len(L)]) :
                       Exists(target, a.path) /\ target[a.path].data = a.data

\* A run has ended for a template with a marker naming a missing template
\* next to markers naming existing ones.
C16_Witness ==
  /\ pc = "done" /\ OnlyLoaded /\ last.step.from = "kid"
  /\ MissingParents("kid") = {"ghost"} /\ Parents("kid") = {"base", "cmd"}
  /\ target[<<Plain("a.txt")>>].data = Text("kid:a")

----------------------------------------------------------------------------
Holds(path, data) == Exists(target, path) /\ target[path].data = data

\* C17: an inheritance marker in subdirectory d of a template puts the
\* ancestor's files under d of the output and not at its root, and the
\* relative paths accumulate when the ancestor's own marker sits in a
\* subdirectory: kid has src/<inherit:cmd>, deep has lib/<inherit:kid>.
C17_AnchoredAtMarkerDirectory ==
  LET lib == Plain("lib")
      srcDir == Plain("src")
      c == Plain("c.txt")
  IN  /\ (OnlyLoaded /\ last.step.from = "kid") =>
           /\ \E n \in 1..Len(steps) : steps[n].from = "cmd" /\ steps[n].to = <<srcDir>>
           /\ pc = "done" =>
                /\ Holds(<<srcDir, c>>, Text("cmd:c"))
                /\ ~Exists(target, <<c>>)
      /\ (OnlyLoaded /\ last.step.from = "deep") =>
           /\ \E n \in 1..Len(steps) : steps[n].from = "kid" /\ steps[n].to = <<lib>>
           /\ \E n \in 1..Len(steps) : steps[n].from = "base" /\ steps[n].to = <<lib>>
           /\ \E n \in 1..Len(steps) : steps[n].from = "cmd" /\ steps[n].to = <<lib, srcDir>>
           /\ pc = "done" =>
                /\ Holds(<<lib, srcDir, c>>, Text("cmd:c"))
                /\ Holds(<<lib, srcDir, Plain("k.txt")>>, Text("kid:k"))
                /\ Holds(<<lib, Plain("a.txt")>>, Text("kid:a"))
                /\ Holds(<<lib, Plain(".gitignore")>>, Text("base:ignore"))
                /\ ~Exists(target, <<c>>) /\ ~Exists(target, <<srcDir>>)
                /\ ~Exists(target, <<lib, c>>) /\ ~Exists(target, <<Plain("a.txt")>>)

\* A run has ended for the template whose marker, in a subdirectory, names a
\* template with a marker in a subdirectory of its own.
C17_Witness ==
  /\ pc = "done" /\ OnlyLoaded /\ last.step.from = "deep"
  /\ Holds(<<Plain("lib"), Plain("src"), Plain("c.txt")>>, Text("cmd:c"))
  /\ Holds(<<Plain("d.txt")>>, Text("deep:d"))

----------------------------------------------------------------------------
\* C18: no entry named <inherit:NAME> is ever copied into the target
\* directory, at any depth and for any executed step, whether registered by
\* loadTemplate, addStep or addSteps or returned by a hook.
C18_MarkersNeverCopied ==
  \A p \in DOMAIN target : \A n \in 1..Len(p) : p[n].k # "inherit"

\* A run has ended that copied templates holding markers, at the top and in
\* a subdirectory, for a step of addSteps and for a step returned by a hook.
C18_Witness ==
  /\ pc = "done"
  /\ Len(steps) = 2 /\ steps[1].from = "duo" /\ steps[1].via = "addSteps"
  /\ \E n \in CopyEventsOf("kid") : trace[n].ph = "pre" /\ trace[n].i = 2
  /\ Holds(<<Plain("pkg"), Plain("src"), Plain("k.txt")>>, Text("kid:k"))
  /\ MarkerNames(Lib["kid"]) # {} /\ MarkerNames(Lib["duo"]) # {}

----------------------------------------------------------------------------
\* The copy events of a run are the own copies of the steps of the list and
\* of the steps the hooks returned.
CopyEvents == { n \in 1..Len(trace) : trace[n].ev = "copy" }

\* C19 as stated: for every executed step with from, however it was
\* registered, the templates it inherits from are materialized before it.
C19_AncestorsBeforeEveryStep ==
  \A n \in CopyEvents :
    (TemplateExists(trace[n].what) /\ Acyclic(trace[n].what)) =>
      \A y \in Parents(trace[n].what) :
        \E m \in CopyEvents : m < n /\ trace[m].what = y

\* C19 as amended: inheritance is resolved by loadTemplate alone, at
\* registration.  The own step of an acyclic template registered by
\* loadTemplate is preceded in the list by a step for each of its ancestors,
\* anchored where the marker is, and in a run by their copies.  Executing a
\* step resolves nothing: every copy of a run is the own copy of one step of
\* the list or of one step a hook returned, so a step of addStep or addSteps
\* or of a hook that names a template with markers is materialized without
\* its ancestors.
C19_AncestorsOnlyByLoadTemplate ==
  /\ \A i \in 1..Len(steps) :
       (steps[i].via = "loadTemplate" /\ Acyclic(steps[i].from)) =>
         \A y \in Parents(steps[i].from) :
           /\ \E j \in 1..(i - 1) : steps[j].from = y /\ steps[j].via = "loadTemplate"
           /\ \A n \in CopyEvents :
                (trace[n].ph = "main" /\ trace[n].i = i) =>
                  \E m \in CopyEvents :
                    m < n /\ trace[m].what = y /\ trace[m].ph = "main" /\ trace[m].i < i
  /\ \A n \in CopyEvents :
       /\ trace[n].what = StepOfEvent(trace[n]).from
       /\ \A m \in CopyEvents :
            (trace[m].i = trace[n].i /\ trace[m].ph = trace[n].ph /\ trace[m].k = trace[n].k)
              => m = n

\* A run has ended for a step of addSteps whose template inherits from base:
\* base was not materialized.
C19_Witness ==
  /\ pc = "done" /\ Len(steps) = 2
  /\ steps[1].from = "duo" /\ steps[1].via = "addSteps"
  /\ "base" \in Parents("duo")
  /\ CopyEventsOf("duo") # {} /\ CopyEventsOf("base") = {}
  /\ ~Exists(target, <<PackageJson>>)

----------------------------------------------------------------------------
DepNames(data) == { data.deps[n].name : n \in 1..Len(data.deps) }

KeysSorted(data) ==
  \A n, m \in 1..Len(data.deps) :
    n < m => KeyRank(data.deps[n].name) < KeyRank(data.deps[m].name)

\* A run has ended for base, whose package.json has the dependency a, then
\* pkg with isMergePackageJson, whose package.json has c and b.
MergedRun ==
  /\ pc = "done" /\ Len(steps) = 2
  /\ steps[1].from = "base" /\ steps[2].from = "pkg" /\ steps[2].isMergePackageJson

\* C20: when a step has isMergePackageJson set and the destination holds a
\* package.json, the merged document's dependencies contain the existing
\* document's and the incoming document's, with keys in alphabetical order.
C20_MergeKeepsBothSorted ==
  MergedRun =>
    /\ Exists(target, <<PackageJson>>)
    /\ {"a", "b", "c"} \subseteq DepNames(target[<<PackageJson>>].data)
    /\ KeysSorted(target[<<PackageJson>>].data)

----------------------------------------------------------------------------
\* One executeStep: what went in and what came out

\* The step executeStep was called with
TheStep == steps[1]

\* The copy of the step has returned without an error
Copied == Len(steps) = 1 /\ pc \in {"prepare", "prepareWait", "hook"} /\ err = ""

\* The entries of directory entries that are the file called name
FilesCalled(entries, name) ==
  { n \in 1..Len(entries) : ~entries[n].dir /\ entries[n].name = name }

\* The package.json at the root of template t
RootPackage(t) == Lib[t][CHOOSE n \in FilesCalled(Lib[t], PackageJson) : TRUE].data

HasRootPackage(t) == TemplateExists(t) /\ FilesCalled(Lib[t], PackageJson) # {}

\* The entries of the key "dependencies", whatever their order
DepSet(data) == { data.deps[n] : n \in 1..Len(data.deps) }

\* The step merged the package.json of its template into the one the target
\* directory had
Merged ==
  /\ Copied /\ TheStep.isMergePackageJson /\ HasRootPackage(TheStep.from)
  /\ Exists(target0, <<PackageJson>>)
  /\ target0[<<PackageJson>>].data.t = "json" /\ RootPackage(TheStep.from).t = "json"

\* C21: in a package.json merge every top-level key of the incoming document
\* has the incoming value, a key only the existing document has is kept, and
\* name is the existing name when that is not empty, else the incoming name.
C21_IncomingKeysWin ==
  Merged =>
    LET existing == target0[<<PackageJson>>].data
        incoming == RootPackage(TheStep.from)
        merged == target[<<PackageJson>>].data
    IN  /\ merged.t = "json"
        /\ merged.version = (IF incoming.version # "" THEN incoming.version ELSE existing.version)
        /\ merged.has = (incoming.has \/ existing.has)
        /\ DepSet(merged) = (IF incoming.has THEN DepSet(incoming) ELSE DepSet(existing))
        /\ merged.v = (IF existing.v # "" THEN existing.v ELSE incoming.v)

\* A merge in which the incoming document replaces "dependencies", the
\* existing "version" and name are kept.
C21_Witness ==
  /\ Merged /\ TheStep.from = "pkg"
  /\ target0[<<PackageJson>>].data = OldPackage
  /\ target[<<PackageJson>>].data.version = "0.0.1"
  /\ target[<<PackageJson>>].data.v = "old"
  /\ DepSet(target[<<PackageJson>>].data) = { Dep("b", "2"), Dep("c", "3") }

\* The step copied the package.json of its template and patched the copy
Patched ==
  /\ Copied /\ HasRootPackage(TheStep.from) /\ RootPackage(TheStep.from).t = "json"
  /\ ~(TheStep.isMergePackageJson /\ Exists(target0, <<PackageJson>>))

\* The version the step was run with
GivenVersion == IF TheStep.version.t # "undefined" THEN TheStep.version ELSE config.version

\* C22: in copy-then-patch with a string version every 'workspace:*' of the
\* copied package.json becomes '^' followed by the version when the version
\* contains none of alpha, beta, rc, canary, nightly, and the version itself
\* otherwise; with no version 'workspace:*' stays.
C22_WorkspaceVersion ==
  (Patched /\ GivenVersion.t \in {"string", "undefined"}) =>
    LET source == RootPackage(TheStep.from)
        copy == target[<<PackageJson>>].data
        text == Join(GivenVersion.s)
        tagged == \E n \in 1..Len(GivenVersion.s) :
                    GivenVersion.s[n] \in {"alpha", "beta", "rc", "canary", "nightly"}
        expected == IF GivenVersion.t = "undefined" THEN "workspace:*"
                    ELSE IF tagged THEN text ELSE "^" \o text
    IN  /\ Len(copy.deps) = Len(source.deps)
        /\ \A n \in 1..Len(source.deps) :
             /\ copy.deps[n].name = source.deps[n].name
             /\ copy.deps[n].ver = (IF source.deps[n].ver = "workspace:*" THEN expected
                                    ELSE source.deps[n].ver)

\* A pre-release version has replaced 'workspace:*' without a '^'.
C22_Witness ==
  /\ Patched /\ TheStep.from = "mono"
  /\ GivenVersion = VersionString(<<"1.2.3", "-", "beta">>)
  /\ target[<<PackageJson>>].data.deps = << Dep("core", "1.2.3-beta"), Dep("a", "1") >>

\* The variables the step was run with
GivenVariables == TheStep.variables.m

\* The files at the root of template t that are copied as they are or
\* substituted: no directory, no package.json, no marker, nothing skipped
OrdinaryFiles(t) ==
  { n \in 1..Len(Lib[t]) :
      /\ ~Lib[t][n].dir /\ Lib[t][n].name \notin {PackageJson, PrepareName}
      /\ Lib[t][n].name.k # "inherit"
      /\ Lib[t][n].name \notin {Plain("dist"), Plain("node_modules")} }

\* The name the claim gives the copy of an entry
ExactName(name, variables) ==
  IF name.k = "tmpl" THEN Plain(Exactly(name.parts, variables))
  ELSE RenameOf(DefaultRenameFiles, name)

\* A file with no zero byte among its first 512 bytes
NoZeroInWindow(data) == data.zero = 0 \/ data.zero > 512

\* C23: every {{key}} of a variable is replaced by exactly String(value),
\* whatever characters the value holds, in file names and in the content of
\* files that are not binary; any other {{token}} is left as it is.
C23_SubstitutesExactly ==
  (Copied /\ TemplateExists(TheStep.from)) =>
    \A n \in OrdinaryFiles(TheStep.from) :
      LET e == Lib[TheStep.from][n]
          path == <<ExactName(e.name, GivenVariables)>>
      IN  /\ Exists(target, path)
          /\ (NoZeroInWindow(e.data) /\ e.name \notin env.readFails)
               => Content(target[path].data) = Exactly(Parts(e.data), GivenVariables)

\* The path the copy of a root entry of the template is written to
CopyPath(e) == <<SubstituteName(RenameOf(DefaultRenameFiles, e.name), GivenVariables)>>

\* C24: a file with a zero byte among its first 512 bytes is copied with its
\* content unchanged and its name substituted; a file without one has its
\* content substituted; a file that cannot be opened for the check is taken
\* for not binary.
C24_BinaryCopiedAsIs ==
  (Copied /\ TemplateExists(TheStep.from) /\ GivenVariables # <<>>) =>
    \A n \in OrdinaryFiles(TheStep.from) :
      LET e == Lib[TheStep.from][n]
          opens == e.name \notin env.openFails
          reads == e.name \notin env.readFails
          substituted == Flat(Substitute(Parts(e.data), GivenVariables))
      IN  /\ Exists(target, CopyPath(e))
          /\ (opens /\ ~NoZeroInWindow(e.data)) => target[CopyPath(e)].data = e.data
          /\ (opens /\ NoZeroInWindow(e.data) /\ reads)
               => Content(target[CopyPath(e)].data) = substituted
          /\ (~opens /\ reads) => Content(target[CopyPath(e)].data) = substituted
          /\ (~opens /\ ~reads) => target[CopyPath(e)].data = e.data

\* '{{name}}.bin' has its zero byte at position 512: it was copied to
\* 'App.bin' with its content as it was, next to 'late.dat' whose zero
\* byte is at 513 and whose content was substituted.
C24_Witness ==
  /\ Copied /\ TheStep.from = "comp" /\ GivenVariables = NameIs("App") /\ env = NoFailures
  /\ Exists(target, <<Plain("App.bin")>>)
  /\ Content(target[<<Plain("App.bin")>>].data) = "{{name}}!"
  /\ Content(target[<<Plain("late.dat")>>].data) = "App?"

\* C25: the placeholders of a template's package.json are substituted from
\* the step's variables: with the name '{{name}}' and the variable name = v
\* the package.json of the target has the name v, whatever
\* config.packageName is.
C25_PackageNameFromVariables ==
  ( /\ Patched /\ RootPackage(TheStep.from).v = "{{name}}" /\ TheStep.packageName = ""
    /\ VariablesFor("name", GivenVariables) # {} ) =>
    LET n == CHOOSE n \in VariablesFor("name", GivenVariables) : TRUE
    IN  target[<<PackageJson>>].data.v = Flat(String(GivenVariables[n].value))

\* The package.json in the subdirectory packages
NestedPackage == <<Plain("packages"), PackageJson>>

\* Before the step the target had the same package.json, or none, at its
\* root and in packages
SameBefore ==
  /\ Exists(target0, <<PackageJson>>) <=> Exists(target0, NestedPackage)
  /\ Exists(target0, <<PackageJson>>) => target0[<<PackageJson>>] = target0[NestedPackage]

\* C27: a package.json in a subdirectory of a template is merged or patched
\* with the same isMergePackageJson, version and packageName as one at the
\* root: template mono has the same package.json in both places, so the
\* two copies come out the same.
C27_SubdirectorySamePolicy ==
  (Copied /\ TheStep.from = "mono" /\ SameBefore) =>
    /\ Exists(target, NestedPackage)
    /\ target[NestedPackage].data = target[<<PackageJson>>].data

----------------------------------------------------------------------------
\* loadTemplate with options

\* The files of the target directory called name, wherever they are
FilesNamed(name) == { p \in DOMAIN target : p # <<>> /\ p[Len(p)] = name /\ ~target[p].dir }

\* The text of the template file called name of template t, at its root
TemplateText(t, name) == Parts(Lib[t][CHOOSE n \in FilesCalled(Lib[t], name) : TRUE].data)

\* C26: the ancestor steps loadTemplate registers are materialized with the
\* same variable values as the template's own step, for variables given as
\* a map and as a function: after loadTemplate(app, {variables}) and the
\* run, lib.txt, part.txt and app.txt carry one and the same resolution.
C26_SameVariablesForAncestors ==
  (pc = "done" /\ OnlyLoaded /\ last.step.from = "app") =>
    \E resolved \in Resolutions(last.step.variables) :
      \A file \in { [t |-> "lib", name |-> Plain("lib.txt")],
                     [t |-> "part", name |-> Plain("part.txt")],
                     [t |-> "app", name |-> Plain("app.txt")] } :
        /\ FilesNamed(file.name) # {}
        /\ \A p \in FilesNamed(file.name) :
             Content(target[p].data) = Flat(Substitute(TemplateText(file.t, file.name), resolved))

\* C29: for loadTemplate(T, {to: d}) the files of T's ancestors are put
\* under the destination d of T's own files: a marker at the root anchors
\* the ancestor at d, a marker in subdirectory s at d/s.  Template app has
\* <inherit:lib> at its root and <inherit:part> in src.
C29_AncestorsUnderDestination ==
  LET d == last.step.to
      srcDir == Plain("src")
  IN  /\ Loaded => \A n \in 1..Len(LoadedSteps) : IsPrefix(d, LoadedSteps[n].to)
      /\ (OnlyLoaded /\ last.step.from = "app") =>
           /\ \E n \in 1..Len(steps) : steps[n].from = "lib" /\ steps[n].to = d
           /\ \E n \in 1..Len(steps) : steps[n].from = "part" /\ steps[n].to = Append(d, srcDir)
           /\ pc = "done" =>
                /\ Exists(target, Append(d, Plain("app.txt")))
                /\ Exists(target, Append(d, Plain("lib.txt")))
                /\ Exists(target, d \o <<srcDir, Plain("part.txt")>>)

----------------------------------------------------------------------------
\* Prepare commands

RECURSIVE MarkerCommands(_)
\* The commands of the prepare command files of a template directory
MarkerCommands(entries) ==
  IF entries = <<>> THEN {}
  ELSE LET e == Head(entries)
       IN  (IF e.dir THEN MarkerCommands(e.sub)
            ELSE IF e.name = PrepareName THEN {e.data.v} ELSE {})
           \cup MarkerCommands(Tail(entries))

\* The commands of the prepare command files the target directory held
\* before the step
StaleCommands ==
  { target0[p].data.v :
      p \in { q \in DOMAIN target0 : q # <<>> /\ ~target0[q].dir /\ q[Len(q)] = PrepareName } }

\* The commands executed so far
Executed == { trace[n].what : n \in { m \in 1..Len(trace) : trace[m].ev = "prepare" } }

\* C28 as stated: the prepare commands executed after a step are those of
\* the marker files the step copied from its template; a marker file the
\* target directory held before the step is never executed.
C28_OnlyCopiedMarkersRun ==
  (Len(steps) = 1 /\ TemplateExists(TheStep.from)) =>
    Executed \subseteq MarkerCommands(Lib[TheStep.from])

\* C28 amended: after the copy of a step every prepare command file found
\* under the step's destination is executed, once, and removed, whether the
\* step copied it from its template or the directory held it already; no
\* other command is executed.
C28_EveryMarkerFoundRuns ==
  (Len(steps) = 1 /\ TemplateExists(TheStep.from)) =>
    /\ Executed \subseteq MarkerCommands(Lib[TheStep.from]) \cup StaleCommands
    /\ (Copied /\ pc = "hook") =>
         /\ \A c \in StaleCommands :
              Cardinality({ n \in 1..Len(trace) : trace[n].ev = "prepare" /\ trace[n].what = c }) = 1
         /\ \A p \in DOMAIN target : p # <<>> => p[Len(p)] # PrepareName

\* executeStep has returned after the command of a marker file that was in
\* old/ before the step, and the file is gone.
C28_Witness ==
  /\ Copied /\ pc = "hook" /\ TheStep.from = "comp"
  /\ Exists(target0, <<Plain("old"), PrepareName>>)
  /\ ~Exists(target, <<Plain("old"), PrepareName>>)
  /\ "make old" \in Executed

----------------------------------------------------------------------------
\* Steps returned by a hook

\* The steps the hook of step i returned in phase ph
Returned(i, ph) == HookSteps(HookOf(steps[i], ph))

\* The events of the k-th step a hook of step i returned in phase ph
EventsOf(i, ph, k) == { n \in Positions : trace[n].i = i /\ trace[n].ph = ph /\ trace[n].k = k }

\* C30: the steps a hook returns are executed at once, by their copy and
\* their prepare commands, between the hook and what follows it; their own
\* preHook and postHook are never invoked, so that nothing is executed
\* deeper than one level; a returned step without from does nothing.
C30_ReturnedStepsWithoutHooks ==
  /\ \A n \in Positions :
       LET e == trace[n]
       IN  /\ e.ev = "hook" => e.k = 0 /\ e.what = HookOf(steps[e.i], e.ph)
           /\ e.k > 0 =>
                /\ e.ph \in {"pre", "post"}
                /\ e.k <= Len(Returned(e.i, e.ph))
                /\ Returned(e.i, e.ph)[e.k].from # ""
                /\ e.ev = "copy" => e.what = Returned(e.i, e.ph)[e.k].from
                /\ \E m \in 1..(n - 1) :
                     /\ trace[m] = [ev |-> "hook", i |-> e.i, ph |-> e.ph, k |-> 0,
                                    what |-> HookOf(steps[e.i], e.ph)]
                     /\ \A l \in m..n : trace[l].i = e.i /\ trace[l].ph = e.ph
  /\ \A j \in Finished : \A ph \in {"pre", "post"} : \A k \in 1..Len(Returned(j, ph)) :
       LET step == Returned(j, ph)[k]
       IN  IF step.from = "" THEN EventsOf(j, ph, k) = {}
           ELSE /\ \E n \in EventsOf(j, ph, k) : trace[n].ev = "copy" /\ trace[n].what = step.from
                /\ (TemplateExists(step.from) /\ MarkerCommands(Lib[step.from]) # {}) =>
                     \E n \in EventsOf(j, ph, k) :
                       trace[n].ev = "prepare" /\ trace[n].what \in MarkerCommands(Lib[step.from])

\* A build is over in which a hook returned a step with hooks of its own and
\* a step without from: the first was copied and its prepare command run.
C30_Witness ==
  /\ pc = "done"
  /\ \E j \in 1..Len(steps) :
       /\ steps[j].postHook = "inject"
       /\ Returned(j, "post")[1].preHook = "throw"
       /\ Returned(j, "post")[1].postHook = "injectKid"
       /\ Returned(j, "post")[2].from = ""
       /\ \E n \in EventsOf(j, "post", 1) : trace[n].ev = "prepare"
       /\ Exists(target, <<Plain("tools")>>)

----------------------------------------------------------------------------
\* The prompt of a step's copy

----------------------------------------------------------------------------
\* The prepare commands of a step

\* The prepare command files of a directory tree under dir
MarkersUnder(fs, dir) ==
  { p \in DOMAIN fs : IsPrefix(dir, p) /\ p # dir /\ ~fs[p].dir /\ p[Len(p)] = PrepareName }

\* The command the claim gives a marker file: its text without the white
\* space at its ends, the variables of the step in the place of their
\* placeholders
CommandOf(data, variables) == Exactly(TrimText(Parts(data)), variables)

\* The command running is the one of a marker file under the destination of
\* the step in hand, with the directory of that file as working directory.
RunsInMarkerDirectory ==
  pc = "prepareWait" =>
    /\ marker \in MarkersUnder(target, CurStep.to)
    /\ marker = Append(cwd, PrepareName)
    /\ \E r \in Resolutions(CurStep.variables) :
         trace[Len(trace)] = Event("prepare", cur, CommandOf(target[marker].data, r))

\* When the step's own copy and commands are over and its postHook is next,
\* no marker file is left under its destination.
NoMarkerLeftBeforePostHook ==
  (pc = "hook" /\ cur.ph = "post" /\ cur.k = 0 /\ steps[cur.i].from # "") =>
    /\ MarkersUnder(target, steps[cur.i].to) = {}
    /\ \A n \in Positions : ~(trace[n].ev = "hook" /\ trace[n].i = cur.i /\ trace[n].ph = "post")

\* After a build no marker file copied from a template is in the target.
NoMarkerLeftAfterBuild ==
  pc = "done" => \A p \in MarkersUnder(target, Root) : p \in MarkersUnder(target0, Root)

\* A marker file leaves the target when its command has exited with code 0,
\* or at once if it holds no command; the command that has exited does not
\* start again for the same file.
MarkerDeletedAfterItsCommand ==
  \A p \in MarkersUnder(target, Root) :
    p \notin DOMAIN target' =>
      \/ pc = "prepareWait" /\ pc' = "prepare" /\ p = marker
      \/ pc = "prepare" /\ \A r \in Resolutions(CurStep.variables) : CommandOf(target[p].data, r) = ""

CommandExitDeletes ==
  (pc = "prepareWait" /\ pc' = "prepare") => marker \notin DOMAIN target'

\* C32: after a step with from is materialized, each prepare command file
\* under the step's destination has its command, with the variables
\* substituted, executed once with the directory of the file as working
\* directory and is then deleted, all before the postHook of the step; after
\* a build no prepare command file copied from a template is in the target.
C32_PrepareCommandsRunOnceAndAreDeleted ==
  /\ [](RunsInMarkerDirectory /\ NoMarkerLeftBeforePostHook /\ NoMarkerLeftAfterBuild)
  /\ [][MarkerDeletedAfterItsCommand /\ CommandExitDeletes]_vars

\* The build of template app to out with name = one is over: 'echo one' ran
\* in out/src, where the marker file was copied to, and the file is gone.
C32_Witness ==
  /\ pc = "done" /\ OnlyLoaded /\ last.step.from = "app" /\ last.step.to = <<Plain("out")>>
  /\ last.step.variables = VariablesAs("map", NameIs("one"))
  /\ Executed = {"echo one"}
  /\ cwd = <<Plain("out"), Plain("src")>>
  /\ Exists(target, <<Plain("out"), Plain("src"), Plain("main.txt")>>)
  /\ MarkersUnder(target, Root) = {}

----------------------------------------------------------------------------
\* Skipped entries

RECURSIVE TemplatePaths(_, _)
\* The paths of the entries of a template directory, at every depth,
\* relative to its root
TemplatePaths(entries, relativePath) ==
  IF entries = <<>> THEN {}
  ELSE LET e == Head(entries)
           path == Append(relativePath, e.name)
       IN  {path} \cup (IF e.dir THEN TemplatePaths(e.sub, path) ELSE {})
           \cup TemplatePaths(Tail(entries), relativePath)

\* The rule of the claim for one entry
InSkipSet(path, skipFiles) ==
  LET skipped == {<<Plain("dist")>>, <<Plain("node_modules")>>} \cup skipFiles
      name == path[Len(path)]
  IN  <<name>> \in skipped \/ path \in skipped \/ name.k = "inherit"

\* The entry, or a directory it is in, falls under the rule
ShouldSkip(path, skipFiles) ==
  \E n \in 1..Len(path) : InSkipSet(SubSeq(path, 1, n), skipFiles)

\* The entries whose names are copied as they are: no placeholder in them,
\* no prepare command file, and nothing the step's renameFiles renames
PlainlyNamed(path) ==
  LET renameFiles == IF TheStep.renameFiles.given THEN TheStep.renameFiles.m
                     ELSE DefaultRenameFiles
  IN  \A n \in 1..Len(path) :
        /\ path[n].k # "tmpl" /\ path[n] # PrepareName
        /\ RenameOf(renameFiles, path[n]) = path[n]

\* C33: during a copy an entry is skipped if and only if its name or its
\* path relative to the root of the step's template is in {dist,
\* node_modules} or skipFiles, or its name is an inheritance marker; the
\* rule holds at every depth and nothing in a skipped directory is copied.
C33_SkippedIffInSkipSet ==
  (Copied /\ TemplateExists(TheStep.from)) =>
    \A path \in TemplatePaths(Lib[TheStep.from], <<>>) :
      (PlainlyNamed(path) /\ path \notin DOMAIN target0) =>
        (path \in DOMAIN target <=> ~ShouldSkip(path, TheStep.skipFiles))

\* Template tree was copied with skipFiles = ['src/skip.txt']: that file is
\* not in the target, skip.txt and src/lib/skip.txt are, and nothing of
\* dist or src/node_modules is.
C33_Witness ==
  /\ Copied /\ TheStep.from = "tree"
  /\ TheStep.skipFiles = { <<Plain("src"), Plain("skip.txt")>> }
  /\ ~Exists(target, <<Plain("src"), Plain("skip.txt")>>)
  /\ Exists(target, <<Plain("skip.txt")>>)
  /\ Exists(target, <<Plain("src"), Plain("lib"), Plain("skip.txt")>>)
  /\ ~Exists(target, <<Plain("dist")>>)
  /\ ~Exists(target, <<Plain("src"), Plain("node_modules")>>)

----------------------------------------------------------------------------
\* The version map and the name

\* The package name the step was run with
GivenPackageName == IF TheStep.packageName # "" THEN TheStep.packageName ELSE config.packageName

\* The entries of a dependency object after the version map of the claim:
\* the mapped version for every name the map has, the others as they were
MappedExactly(deps, versionMap) ==
  [n \in 1..Len(deps) |->
     LET S == { k \in 1..Len(versionMap) : versionMap[k].name = deps[n].name }
     IN  IF S = {} THEN deps[n] ELSE Dep(deps[n].name, versionMap[CHOOSE k \in S : TRUE].ver)]

\* C34: in copy-then-patch of a root package.json a version map sets
\* dependencies[d] and devDependencies[d] to the mapped version for exactly
\* the d that are there already and adds or changes no other entry; name
\* becomes packageName if and only if a packageName is given and is not
\* '.'; packageName and version are the step's, else the build config's.
C34_VersionMapOverwritesPresentEntries ==
  Patched =>
    LET source == RootPackage(TheStep.from)
        copy == target[<<PackageJson>>].data
    IN  /\ GivenVersion.t = "object" =>
             /\ copy.has = source.has /\ copy.hasDev = source.hasDev
             /\ copy.deps = MappedExactly(source.deps, GivenVersion.m)
             /\ copy.dev = MappedExactly(source.dev, GivenVersion.m)
        /\ copy.v = IF GivenPackageName \notin {"", "."} THEN GivenPackageName ELSE source.v

----------------------------------------------------------------------------
\* A template inherited on two branches

\* C35: a template may appear once for each branch that inherits it: dia
\* inherits duo and ext, both inherit base and nothing inherits dia, so
\* resolving dia yields base before duo and base again before ext, and no
\* circular inheritance warning is logged.
C35_OncePerBranch ==
  (Loaded /\ last.step.from = "dia") =>
    /\ Froms(last.inherited) = <<"base", "duo", "base", "ext">>
    /\ \A n \in 1..Len(last.warn) : last.warn[n].w # "Circular inheritance detected for template"
    /\ Len(steps) >= 5 /\ Froms(SubSeq(steps, Len(steps) - 4, Len(steps)))
                            = <<"base", "duo", "base", "ext", "dia">>

\* loadTemplate has resolved dia, whose two parents have a parent in common.
C35_Witness ==
  /\ Loaded /\ last.step.from = "dia"
  /\ Parents("dia") = {"duo", "ext"}
  /\ "base" \in Parents("duo") \cap Parents("ext")
  /\ Acyclic("dia")
  /\ Cardinality({ n \in 1..Len(steps) : steps[n].from = "base" }) = 2

----------------------------------------------------------------------------
\* The default rename

\* The step's renameFiles maps the name gitignore to another name
MapsGitignore(step) ==
  /\ step.renameFiles.given
  /\ Plain("gitignore") \in DOMAIN step.renameFiles.m
  /\ step.renameFiles.m[Plain("gitignore")] # Plain("gitignore")

\* C36: a template entry named gitignore is materialized as .gitignore in
\* every step whose renameFiles does not itself map the name gitignore to
\* another name; a renameFiles mapping for gitignore replaces the default.
C36_GitignoreRenamedByDefault ==
  (Copied /\ TemplateExists(TheStep.from) /\ FilesCalled(Lib[TheStep.from], Plain("gitignore")) # {}) =>
    IF MapsGitignore(TheStep)
      THEN /\ Exists(target, <<TheStep.renameFiles.m[Plain("gitignore")]>>)
           /\ ~Exists(target, <<Plain(".gitignore")>>)
      ELSE /\ Exists(target, <<Plain(".gitignore")>>)
           /\ ~Exists(target, <<Plain("gitignore")>>)

----------------------------------------------------------------------------
\* ActionRunner.run

\* C37: run() executes the actions in the order they were added, one at a
\* time, gives each the result of the action right before it and nothing to
\* the first, and when an action throws it rejects with that error and
\* executes no later action.
C37_RunnerSequentialWithPreviousResult ==
  LET calls == runner.calls
      actions == runner.actions
  IN  /\ Len(calls) <= Len(actions)
      /\ \A n \in 1..Len(calls) :
           /\ calls[n].name = actions[n]
           /\ calls[n].previousResult =
                (IF n = 1 THEN "undefined" ELSE "result of " \o actions[n - 1])
           /\ n < Len(calls) => calls[n].outcome = "returned"
      /\ Cardinality({ n \in 1..Len(calls) : calls[n].outcome = "running" }) <= 1
      /\ runner.pc = "rejected" <=> (calls # <<>> /\ calls[Len(calls)].outcome = "threw")
      /\ runner.pc = "rejected" => runner.err = "error of " \o actions[Len(calls)]
      /\ runner.pc = "resolved" =>
           /\ Len(calls) = Len(actions)
           /\ \A n \in 1..Len(calls) : calls[n].outcome = "returned"

\* Of three actions the first returned, the second was given its result and
\* threw, and the third was not executed.
C37_Witness ==
  /\ runner.pc = "rejected"
  /\ runner.actions = <<"check", "copy", "build">>
  /\ Len(runner.calls) = 2
  /\ runner.calls[2].previousResult = "result of check"
  /\ runner.err = "error of copy"

----------------------------------------------------------------------------
\* C38

\* A run has got past the check that comes before its steps.
PastTheCheck == mode \in {"build", "single", "actions"} /\ pc \notin {"idle", "action"}

\* The question before the steps was put to the user in this run.
AskedBeforeSteps == \E n \in Positions : trace[n].ev = "ask" /\ trace[n].ph = "check"

\* The condition under which build() puts the question, on the target
\* directory the run started with.
BuildWouldAsk ==
  /\ shouldCheckEmpty /\ ~config.override
  /\ Exists(target0, Root) /\ ~isEmptyDir(target0, Root)

\* The three ways of running share the loop over the steps, so they run the
\* same hooks, copies and prepare commands on the same answers exactly when
\* they put the same questions.
ModeAgreesWithBuild == PastTheCheck /\ steps # <<>> => (AskedBeforeSteps <=> BuildWouldAsk)

\* C38: for the same step list, configuration and answers, build(), the
\* action of toSingleAction() and the list of toActions() run in order
\* produce the same sequence of hook invocations, copies and prepare commands
\* and the same final target directory: a run of any of the three puts the
\* question before the steps exactly when build() would put it.
C38_ModesProduceTheSameRun == ModeAgreesWithBuild

\* The same statement for build() and the list of toActions() alone.
BuildAndActionsAgree == mode # "single" => ModeAgreesWithBuild

\* A run of the single action asks although override is set; answered with
\* no, it stops before the first step, where build() copies.
SingleActionStopsWhereBuildRuns ==
  /\ mode = "single" /\ config.override
  /\ AskedBeforeSteps /\ err = "Operation cancelled by user"

----------------------------------------------------------------------------
\* C39

\* The variables in the opposite order of iteration
Reversed(variables) == [n \in 1..Len(variables) |-> variables[Len(variables) + 1 - n]]

\* One simultaneous pass over the text: every placeholder of a variable gives
\* way to the replacement made of that variable's value, and what was put in
\* is not looked at again.
Simultaneously(text, variables) ==
  LET Put(piece) ==
        LET S == IF piece.k = "tok" THEN VariablesFor(piece.s, variables) ELSE {}
        IN  IF S = {} THEN Flat(<<piece>>)
            ELSE Flat(Expand(String(variables[CHOOSE n \in S : TRUE].value), piece))
  IN  Join([n \in 1..Len(text) |-> Put(text[n])])

\* The name of an entry after one simultaneous pass
SimultaneousName(name, variables) ==
  IF name.k = "tmpl" THEN Plain(Simultaneously(name.parts, variables)) ELSE name

\* The name and the content of the copy of entry e are those of one
\* simultaneous pass, and those the opposite order of the keys gives.
SubstitutedInOnePass(e) ==
  LET path == CopyPath(e)
  IN  /\ SubstituteName(e.name, GivenVariables) = SimultaneousName(e.name, GivenVariables)
      /\ SubstituteName(e.name, GivenVariables) = SubstituteName(e.name, Reversed(GivenVariables))
      /\ (Exists(target, path) /\ NoZeroInWindow(e.data) /\ e.name \notin env.readFails) =>
           /\ Content(target[path].data) = Simultaneously(Parts(e.data), GivenVariables)
           /\ Content(target[path].data) = Flat(Substitute(Parts(e.data), Reversed(GivenVariables)))

\* No value of the step's variables holds the placeholder of another key.
NoPlaceholderInValues ==
  \A n \in 1..Len(GivenVariables) :
    \A m \in 1..Len(String(GivenVariables[n].value)) :
      String(GivenVariables[n].value)[m].k # "tok"

\* C39: the result of substituting a text does not depend on the order in
\* which the variable keys are iterated, and text inserted as one variable's
\* value is never itself rewritten by another variable: the substitution
\* behaves as a single simultaneous pass.
C39_SubstitutionIsOneSimultaneousPass ==
  (Copied /\ TemplateExists(TheStep.from)) =>
    \A n \in OrdinaryFiles(TheStep.from) : SubstitutedInOnePass(Lib[TheStep.from][n])

\* The same statement for values that hold no placeholder.
OnePassWithoutPlaceholdersInValues ==
  (Copied /\ TemplateExists(TheStep.from) /\ NoPlaceholderInValues) =>
    \A n \in OrdinaryFiles(TheStep.from) : SubstitutedInOnePass(Lib[TheStep.from][n])

\* A copy in which the value put in for one key was rewritten by a later key
ValueRewrittenByLaterKey ==
  /\ Copied /\ TheStep.from = "comp" /\ ~NoPlaceholderInValues
  /\ \E n \in OrdinaryFiles("comp") :
       LET e == Lib["comp"][n]
       IN  /\ Exists(target, CopyPath(e))
           /\ NoZeroInWindow(e.data) /\ e.name \notin env.readFails
           /\ Content(target[CopyPath(e)].data) # Simultaneously(Parts(e.data), GivenVariables)
           /\ Content(target[CopyPath(e)].data) #
                Flat(Substitute(Parts(e.data), Reversed(GivenVariables)))

----------------------------------------------------------------------------
\* C40

\* The paths of the entries directly under directory p
EntriesUnder(fs, p) == { q \in DOMAIN fs : Len(q) = Len(p) + 1 /\ SubSeq(q, 1, Len(p)) = p }

\* The directory does not exist, has no entries, or has the one entry .git.
CountsAsEmpty(fs, p) ==
  \/ p \notin DOMAIN fs
  \/ \A q \in EntriesUnder(fs, p) : q = Append(p, GitDir)

\* C40: a target directory that does not exist, has no entries or holds only
\* a .git entry counts as empty: no continue/abort question is asked for it
\* on any execution path, whatever checkEmpty and override are.
C40_NoQuestionForAnEmptyDirectory ==
  /\ pc = "ask" => ~CountsAsEmpty(target, Root)
  /\ AskedBeforeSteps => ~CountsAsEmpty(target0, Root)
  /\ pc = "copyAsk" => ~CountsAsEmpty(target, TargetPath(CurStep))

\* The single action, which tests nothing but checkEmpty and isEmptyDir, has
\* started its steps on a directory that holds only .git and asked nothing.
C40_Witness ==
  /\ mode = "single" /\ shouldCheckEmpty /\ ~config.override
  /\ DOMAIN target0 = {Root, <<GitDir>>}
  /\ pc = "copy" /\ trace # <<>>
  /\ \A n \in Positions : trace[n].ev # "ask"

====
